---------------------------- MODULE Spec2Model ----------------------------
(***************************************************************************)
(* A model of the OFI sentinel: the trade / order-book stores and the      *)
(* engine (strategy/OFI/data.rs, engine.rs, ofi.rs, signals.rs), the       *)
(* reconnecting feed session with its duplicate-signal gate                *)
(* (connectors/websocket.rs) and the supervisor with its supervised        *)
(* per-symbol tasks (main.rs).                                             *)
(*                                                                         *)
(* Numbers.  Prices, quantities and thresholds are f64 in the source; the  *)
(* model uses integers.  Prices are counted in half ticks and every input  *)
(* price is even, so that the mid price (bid + ask) / 2 is exact.          *)
(* Wall-clock time is counted in whole seconds.                            *)
(***************************************************************************)
EXTENDS Integers, Sequences, FiniteSets, TLC

(***************************************************************************)
(* Bounds of the model                                                     *)
(***************************************************************************)
\* largest trade_storage_limit a configuration of the model may carry
MaxLimit == 2
\* number of add_trade calls followed by the arrival log
MaxTrades == 3
\* capacity of the feed session's signal channel (mpsc::channel(1000) in the source)
WsChannelCap == 1
\* value at which the manager's connection_count, a log counter, stops counting
MaxConnectionCount == 2
\* max_concurrent_websocket_connections of the configuration (20 when it is not set)
max_concurrent_tasks == 2
\* number of analysis tasks the supervisor spawns in one run of the model
MaxTasks == 3
\* longest candidate list the screener returns
MaxCandidates == 2
\* capacity of the supervisor's signal channel (mpsc::channel(100) in the source)
SignalChannelCap == 1

\* the tasks spawned in the runs checked for liveness
MaxFairTasks == 2

\* concurrent callers of one engine
MaxCallers == 2

(***************************************************************************)
(* Data (strategy/OFI/data.rs, strategy/OFI/signals.rs)                    *)
(***************************************************************************)
Symbols == {"BTC", "ETH"}

SignalType == {"StrongBuy", "StrongSell", "Buy", "Sell", "NoSignal"}

OrderBookLevel(p, q) == [price |-> p, quantity |-> q]

OrderBookSnapshot(s, b, a, ts) == [symbol |-> s, bids |-> b, asks |-> a, timestamp |-> ts]

TradeData(s, p, q, sd, ts) == [symbol |-> s, price |-> p, quantity |-> q, side |-> sd, timestamp |-> ts]

\* the value of HashMap::get for a key that is not in the map
None == [none |-> TRUE]

Min(a, b) == IF a < b THEN a ELSE b

Max(a, b) == IF a > b THEN a ELSE b

RECURSIVE Reverse(_)
Reverse(s) == IF s = <<>> THEN <<>> ELSE Append(Reverse(Tail(s)), Head(s))

Take(s, n) == SubSeq(s, 1, Min(n, Len(s)))

Range(s) == {s[i] : i \in 1..Len(s)}

VARIABLES
  config,               \* OFIConfig of the engine (the fields the pipeline reads)
  order_book_storage,   \* OrderBookStorage.books: symbol -> snapshot, or None
  trade_storage,        \* TradeStorage.trades: symbol -> trades in arrival order
  trade_log,            \* history: every trade EngineAddTrade handed to add_trade, per symbol
  book_log,             \* history: per symbol, the snapshot EngineUpdateOrderBook submitted
                        \* last and the number of its submissions (counted up to 2)
  last_signal,          \* the TradingSignal the last analyze_symbol returned
  last_recent,          \* the get_recent_trades call that has just returned: its arguments
                        \* and its result; None once the stores are used again
  last_metrics          \* the calculate_ofi_metrics call that has just returned: the trades
                        \* it was given and its result; None once the stores are used again

engineVars == <<config, order_book_storage, trade_storage, trade_log, book_log, last_signal,
               last_recent, last_metrics>>

VARIABLES
  ws_pc,                \* where the manager task stands: connecting, streaming, sending, sleeping
  connection_count,     \* run_websocket_manager's attempt counter
  recent_signals,       \* connect_and_listen's map signal_key -> seconds since insertion
  sleep_left,           \* seconds left of the manager's reconnect sleep
  send_left,            \* seconds left of the timeout around signal_tx.send
  pending_signal,       \* the signal a blocked signal_tx.send is holding
  ws_channel,           \* the signals queued in the manager's channel
  rx_open,              \* whether the channel's receiver is still alive
  since_admit,          \* history: per key, the seconds since the gate last admitted it
                        \* (DedupSecs + 1: never) and the connection it was admitted on
  gate_log              \* history: the gate's last decision, and whether the channel's
                        \* receiver was alive when it was made

feedVars == <<ws_pc, connection_count, recent_signals, sleep_left, send_left, pending_signal,
              ws_channel, rx_open, since_admit, gate_log>>

VARIABLES
  running_tasks,        \* main's HashMap symbol -> task (JoinHandle and shutdown sender)
  task_symbol,          \* the symbol each spawned task analyses
  task_pc,              \* where each task stands
  shutdown,             \* each task's shutdown channel: empty, sent, received
  task_pending,         \* the signal a task's blocked signal_tx.send is holding
  next_task,            \* the number of the next task to spawn
  available_permits,    \* task_semaphore's free permits
  signal_channel,       \* the signals queued from the tasks to main
  sup_pc,               \* where main's loop stands: select, stopping, joining
  new_candidates,       \* the watchlist branch's new_candidates
  symbols_to_stop,      \* the symbols of symbols_to_stop not handled yet
  join_task,            \* the task whose JoinHandle main is waiting on
  screener_result,      \* history: what call_python_screener returned on the last tick
  running_before,       \* history: running_tasks when the last tick began
  next_before           \* history: next_task when the last tick began

supVars == <<running_tasks, task_symbol, task_pc, shutdown, task_pending, next_task,
             available_permits, signal_channel, sup_pc, new_candidates, symbols_to_stop,
             join_task, screener_result, running_before, next_before>>

VARIABLES
  main_queue,           \* the signals of the frame in hand that signal_tx.send has yet to take
  since_forward,        \* history: per key, the seconds since main last received a signal
                        \* of it (DedupSecs + 1: never)
  forward_log,          \* history: the last signal main received, with the gap to the one before
  dispatched,           \* history: the frame the task has just handled and the signal its
                        \* last analyze_symbol returned (None: the frame led to no
                        \* analysis); None once a send, a receipt or a second followed
  send_wait             \* history: the seconds the task has spent in the signal_tx.send it
                        \* is in (counted up to SendTimeoutSecs + 1)

mainVars == <<main_queue, since_forward, forward_log, dispatched, send_wait>>

VARIABLES
  book_lock,            \* holder of the Mutex around order_book_storage: a caller, or 0
  trade_lock,           \* holder of the Mutex around trade_storage: a caller, or 0
  call_pc,              \* where each caller of the engine stands in its call
  call                  \* each caller's call: the operation, its argument and its locals

lockVars == <<book_lock, trade_lock, call_pc, call>>

VARIABLES
  listen_kind,          \* which session the clocks are watched on: "feed" (websocket.rs),
                        \* "supervised" (main.rs), "none"
  listen_pc,            \* where that session stands: connecting, streaming, sleeping, parked, done
  silence,              \* seconds since the last inbound frame of the connection
  ping_left,            \* seconds until ping_interval ticks next
  nap_left,             \* seconds left of the sleep before the next attempt
  since_attempt,        \* history: seconds since the last attempt ended (capped)
  ended_by              \* history: what ended the last attempt

clockVars == <<listen_kind, listen_pc, silence, ping_left, nap_left, since_attempt, ended_by>>

vars == <<engineVars, feedVars, supVars, mainVars, lockVars, clockVars>>

\* what the actions of one part of the model leave alone
outsideEngine == <<feedVars, supVars, mainVars, lockVars, clockVars>>

outsideFeed == <<supVars, mainVars, lockVars, clockVars>>

outsideSup == <<engineVars, feedVars, mainVars, lockVars, clockVars>>

(***************************************************************************)
(* Stores (strategy/OFI/data.rs)                                           *)
(***************************************************************************)
\* an update that merges the new levels into the stored ones
merge_order_book(books, book) ==
  IF books[book.symbol] = None THEN [books EXCEPT ![book.symbol] = book]
  ELSE [books EXCEPT ![book.symbol] =
          OrderBookSnapshot(book.symbol, book.bids \o @.bids, book.asks \o @.asks,
                            book.timestamp)]

\* OrderBookStorage::update_order_book: books.insert(book.symbol, book)
update_order_book(books, book) == [books EXCEPT ![book.symbol] = book]

\* OrderBookStorage::get_order_book
get_order_book(books, symbol) == books[symbol]

\* a faulty eviction, which drops the newest elements instead of the oldest
EvictNewest(entry, limit) ==
  IF Len(entry) > limit THEN SubSeq(entry, 1, limit) ELSE entry

\* the eviction loop of add_trade: while entry.len() > limit { entry.remove(0) }
RECURSIVE EvictOldest(_, _)
EvictOldest(entry, limit) ==
  IF Len(entry) > limit THEN EvictOldest(Tail(entry), limit) ELSE entry

\* TradeStorage::add_trade: push, then evict down to config.trade_storage_limit
add_trade(trades, trade, cfg) ==
  [trades EXCEPT ![trade.symbol] =
      EvictOldest(Append(trades[trade.symbol], trade), cfg.trade_storage_limit)]

\* a view that starts from the oldest trade
get_oldest_trades(trades, symbol, limit) == Take(trades[symbol], limit)

\* TradeStorage::get_recent_trades: trades.iter().rev().take(limit), empty without entry
get_recent_trades(trades, symbol, limit) == Take(Reverse(trades[symbol]), limit)

(***************************************************************************)
(* OFI metrics (strategy/OFI/ofi.rs)                                       *)
(***************************************************************************)
\* a subtraction that wraps around below zero (shown at 16 bits)
wrapping_sub(a, b) == (a - b) % 65536

\* u64::saturating_sub
saturating_sub(a, b) == IF a >= b THEN a - b ELSE 0

\* trade.price * trade.quantity, counted for "buy", against for "sell"
SignedVolume(trade) ==
  IF trade.side = "buy" THEN trade.price * trade.quantity
  ELSE IF trade.side = "sell" THEN 0 - trade.price * trade.quantity
  ELSE 0

\* calculate_delta: buy_volume - sell_volume over the given trades
RECURSIVE calculate_delta(_)
calculate_delta(trades) ==
  IF trades = <<>> THEN 0 ELSE SignedVolume(Head(trades)) + calculate_delta(Tail(trades))

\* calculate_cumulative_delta: the running signed sum over the given trades
RECURSIVE calculate_cumulative_delta(_)
calculate_cumulative_delta(trades) ==
  IF trades = <<>> THEN 0
  ELSE SignedVolume(Head(trades)) + calculate_cumulative_delta(Tail(trades))

RECURSIVE SumLevels(_)
SumLevels(levels) ==
  IF levels = <<>> THEN 0
  ELSE Head(levels).price * Head(levels).quantity + SumLevels(Tail(levels))

\* a ratio n / d of the source, kept as the pair <<n, d>>; 0.0 is <<0, 1>>
Ratio(n, d) == <<n, d>>

\* calculate_imbalances
calculate_imbalances(order_book) ==
  LET total_buy_size == SumLevels(order_book.bids)
      total_sell_size == SumLevels(order_book.asks)
  IN  [buy_imbalance |-> IF total_sell_size > 0 THEN Ratio(total_buy_size, total_sell_size)
                         ELSE Ratio(0, 1),
       sell_imbalance |-> IF total_buy_size > 0 THEN Ratio(total_sell_size, total_buy_size)
                          ELSE Ratio(0, 1)]

\* trades.iter().filter(|trade| trade.timestamp >= cutoff_time)
RECURSIVE FilterRecent(_, _)
FilterRecent(trades, cutoff_time) ==
  IF trades = <<>> THEN <<>>
  ELSE IF Head(trades).timestamp >= cutoff_time
       THEN <<Head(trades)>> \o FilterRecent(Tail(trades), cutoff_time)
       ELSE FilterRecent(Tail(trades), cutoff_time)

\* calculate_ofi_metrics
calculate_ofi_metrics(order_book, trades, lookback_period_ms) ==
  LET now == order_book.timestamp
      cutoff_time == saturating_sub(now, lookback_period_ms)
      recent_trades == FilterRecent(trades, cutoff_time)
      imb == calculate_imbalances(order_book)
  IN  [symbol |-> order_book.symbol,
       delta |-> calculate_delta(recent_trades),
       cumulative_delta |-> calculate_cumulative_delta(recent_trades),
       buy_imbalance |-> imb.buy_imbalance,
       sell_imbalance |-> imb.sell_imbalance,
       timestamp |-> now]

\* (n / d) >= threshold for d # 0, by cross-multiplication
RatioAtLeast(n, d, threshold) ==
  IF d > 0 THEN n >= threshold * d ELSE n <= threshold * d

\* the counting loop of the stacked detectors over the first levels_to_check levels
RECURSIVE CountImbalanced(_, _, _, _)
CountImbalanced(levels, i, top_size, threshold) ==
  IF i = 0 THEN 0
  ELSE (IF RatioAtLeast(levels[i].price * levels[i].quantity, top_size, threshold) THEN 1 ELSE 0)
       + CountImbalanced(levels, i - 1, top_size, threshold)

\* detect_stacked_buy_imbalance_advanced
detect_stacked_buy_imbalance_advanced(order_book, threshold, levels_to_check, required_levels) ==
  IF Len(order_book.bids) < levels_to_check \/ order_book.asks = <<>> THEN FALSE
  ELSE LET top_ask_size == order_book.asks[1].price * order_book.asks[1].quantity
       IN  IF top_ask_size = 0 THEN FALSE
           ELSE CountImbalanced(order_book.bids, Min(levels_to_check, Len(order_book.bids)),
                                top_ask_size, threshold) >= required_levels

\* a sell detector that measures the ask levels against the top ask
detect_stacked_sell_against_top_ask(order_book, threshold, levels_to_check, required_levels) ==
  IF Len(order_book.asks) < levels_to_check \/ order_book.bids = <<>> THEN FALSE
  ELSE LET top_ask_size == order_book.asks[1].price * order_book.asks[1].quantity
       IN  IF top_ask_size = 0 THEN FALSE
           ELSE CountImbalanced(order_book.asks, Min(levels_to_check, Len(order_book.asks)),
                                top_ask_size, threshold) >= required_levels

\* detect_stacked_sell_imbalance_advanced
detect_stacked_sell_imbalance_advanced(order_book, threshold, levels_to_check, required_levels) ==
  IF Len(order_book.asks) < levels_to_check \/ order_book.bids = <<>> THEN FALSE
  ELSE LET top_bid_size == order_book.bids[1].price * order_book.bids[1].quantity
       IN  IF top_bid_size = 0 THEN FALSE
           ELSE CountImbalanced(order_book.asks, Min(levels_to_check, Len(order_book.asks)),
                                top_bid_size, threshold) >= required_levels

\* detect_stacked_imbalances: (buy_stacked, sell_stacked), 5 levels checked, 3 required
detect_stacked_imbalances(order_book, threshold) ==
  <<detect_stacked_buy_imbalance_advanced(order_book, threshold, 5, 3),
    detect_stacked_sell_imbalance_advanced(order_book, threshold, 5, 3)>>

\* an absorption detector that reads the delta the other way round: Buy on a buying
\* delta, Sell on a selling one
detect_absorption_swapped(order_book, trades, ofi_metrics, params) ==
  IF order_book.bids = <<>> \/ trades = <<>> THEN <<FALSE, "", "NoSignal">>
  ELSE LET best_bid == order_book.bids[1].price
           prev_best_bid == IF Len(order_book.bids) > 1 THEN order_book.bids[2].price
                            ELSE best_bid
       IN  IF ofi_metrics.delta > params.delta_threshold /\ best_bid >= prev_best_bid
           THEN <<TRUE, "Buy absorption detected", "Buy">>
           ELSE IF ofi_metrics.delta < 0 - params.delta_threshold /\ best_bid <= prev_best_bid
           THEN <<TRUE, "Sell absorption detected", "Sell">>
           ELSE <<FALSE, "", "NoSignal">>

\* an absorption detector that asks for a best bid strictly beyond the previous one
detect_absorption_strict(order_book, trades, ofi_metrics, params) ==
  IF order_book.bids = <<>> \/ trades = <<>> THEN <<FALSE, "", "NoSignal">>
  ELSE LET best_bid == order_book.bids[1].price
           prev_best_bid == IF Len(order_book.bids) > 1 THEN order_book.bids[2].price
                            ELSE best_bid
       IN  IF ofi_metrics.delta < 0 - params.delta_threshold /\ best_bid > prev_best_bid
           THEN <<TRUE, "Buy absorption detected", "Buy">>
           ELSE IF ofi_metrics.delta > params.delta_threshold /\ best_bid < prev_best_bid
           THEN <<TRUE, "Sell absorption detected", "Sell">>
           ELSE <<FALSE, "", "NoSignal">>

\* detect_absorption: (is_detected, reason, signal_type)
detect_absorption(order_book, trades, ofi_metrics, params) ==
  IF order_book.bids = <<>> \/ trades = <<>> THEN <<FALSE, "", "NoSignal">>
  ELSE LET best_bid == order_book.bids[1].price
           prev_best_bid == IF Len(order_book.bids) > 1 THEN order_book.bids[2].price
                            ELSE best_bid
           price_did_not_drop == best_bid >= prev_best_bid
           price_did_not_rise == best_bid <= prev_best_bid
       IN  IF ofi_metrics.delta < 0 - params.delta_threshold /\ price_did_not_drop
           THEN <<TRUE, "Buy absorption detected", "Buy">>
           ELSE IF ofi_metrics.delta > params.delta_threshold /\ price_did_not_rise
           THEN <<TRUE, "Sell absorption detected", "Sell">>
           ELSE <<FALSE, "", "NoSignal">>

(***************************************************************************)
(* Signals (strategy/OFI/signals.rs)                                       *)
(***************************************************************************)
TradingSignal(s, st, p, c, r, ts) ==
  [symbol |-> s, signal_type |-> st, price |-> p, confidence |-> c, reason |-> r,
   timestamp |-> ts]

\* TradingSignal::no_signal_with_reason
no_signal_with_reason(symbol, reason) == TradingSignal(symbol, "NoSignal", 0, 0, reason, 0)

\* a rule engine that asks the absorption detector first
detect_signals_absorption_first(order_book, trades, params, strong_signal_confidence, reversal_signal_confidence, exhaustion_signal_confidence) ==
  LET ofi_metrics == calculate_ofi_metrics(order_book, trades, params.lookback_period_ms)
      best_bid == IF order_book.bids = <<>> THEN 0 ELSE order_book.bids[1].price
      best_ask == IF order_book.asks = <<>> THEN 0 ELSE order_book.asks[1].price
      current_price == IF best_bid > 0 /\ best_ask > 0 THEN (best_bid + best_ask) \div 2
                       ELSE Max(best_bid, best_ask)
      adjusted_imbalance_threshold ==
          params.imbalance_threshold * params.market_condition_multiplier
      adjusted_delta_threshold == params.delta_threshold * params.market_condition_multiplier
      stacked == detect_stacked_imbalances(order_book, adjusted_imbalance_threshold)
      buy_stacked == stacked[1]
      sell_stacked == stacked[2]
      adjusted_params ==
          [imbalance_threshold |-> adjusted_imbalance_threshold,
           absorption_threshold |->
               params.absorption_threshold * params.market_condition_multiplier,
           delta_threshold |-> adjusted_delta_threshold,
           lookback_period_ms |-> params.lookback_period_ms,
           market_condition_multiplier |-> params.market_condition_multiplier]
      absorption_detected == detect_absorption(order_book, trades, ofi_metrics, adjusted_params)
  IN  IF absorption_detected[1]
      THEN TradingSignal(order_book.symbol, absorption_detected[3], current_price,
                         reversal_signal_confidence, absorption_detected[2],
                         ofi_metrics.timestamp)
      ELSE IF buy_stacked /\ ofi_metrics.delta > adjusted_delta_threshold
      THEN TradingSignal(order_book.symbol, "StrongBuy", current_price,
                         strong_signal_confidence, "Stacked buy imbalances",
                         ofi_metrics.timestamp)
      ELSE IF sell_stacked /\ ofi_metrics.delta < 0 - adjusted_delta_threshold
      THEN TradingSignal(order_book.symbol, "StrongSell", current_price,
                         strong_signal_confidence, "Stacked sell imbalances",
                         ofi_metrics.timestamp)
      ELSE IF absorption_detected[1]
      THEN TradingSignal(order_book.symbol, absorption_detected[3], current_price,
                         reversal_signal_confidence, absorption_detected[2],
                         ofi_metrics.timestamp)
      ELSE IF ofi_metrics.delta < 0 - adjusted_delta_threshold
              /\ ofi_metrics.cumulative_delta > adjusted_delta_threshold * 2
      THEN TradingSignal(order_book.symbol, "Sell", current_price,
                         exhaustion_signal_confidence, "Potential exhaustion detected",
                         ofi_metrics.timestamp)
      ELSE TradingSignal(order_book.symbol, "NoSignal", current_price, 0,
                         "No significant signal detected", ofi_metrics.timestamp)

\* detect_signals: the rule engine, first match wins
detect_signals(order_book, trades, params, strong_signal_confidence, reversal_signal_confidence, exhaustion_signal_confidence) ==
  LET ofi_metrics == calculate_ofi_metrics(order_book, trades, params.lookback_period_ms)
      best_bid == IF order_book.bids = <<>> THEN 0 ELSE order_book.bids[1].price
      best_ask == IF order_book.asks = <<>> THEN 0 ELSE order_book.asks[1].price
      current_price == IF best_bid > 0 /\ best_ask > 0 THEN (best_bid + best_ask) \div 2
                       ELSE Max(best_bid, best_ask)
      adjusted_imbalance_threshold ==
          params.imbalance_threshold * params.market_condition_multiplier
      adjusted_delta_threshold == params.delta_threshold * params.market_condition_multiplier
      stacked == detect_stacked_imbalances(order_book, adjusted_imbalance_threshold)
      buy_stacked == stacked[1]
      sell_stacked == stacked[2]
      adjusted_params ==
          [imbalance_threshold |-> adjusted_imbalance_threshold,
           absorption_threshold |->
               params.absorption_threshold * params.market_condition_multiplier,
           delta_threshold |-> adjusted_delta_threshold,
           lookback_period_ms |-> params.lookback_period_ms,
           market_condition_multiplier |-> params.market_condition_multiplier]
      absorption_detected == detect_absorption(order_book, trades, ofi_metrics, adjusted_params)
  IN  IF buy_stacked /\ ofi_metrics.delta > adjusted_delta_threshold
      THEN TradingSignal(order_book.symbol, "StrongBuy", current_price,
                         strong_signal_confidence, "Stacked buy imbalances",
                         ofi_metrics.timestamp)
      ELSE IF sell_stacked /\ ofi_metrics.delta < 0 - adjusted_delta_threshold
      THEN TradingSignal(order_book.symbol, "StrongSell", current_price,
                         strong_signal_confidence, "Stacked sell imbalances",
                         ofi_metrics.timestamp)
      ELSE IF absorption_detected[1]
      THEN TradingSignal(order_book.symbol, absorption_detected[3], current_price,
                         reversal_signal_confidence, absorption_detected[2],
                         ofi_metrics.timestamp)
      ELSE IF ofi_metrics.delta < 0 - adjusted_delta_threshold
              /\ ofi_metrics.cumulative_delta > adjusted_delta_threshold * 2
      THEN TradingSignal(order_book.symbol, "Sell", current_price,
                         exhaustion_signal_confidence, "Potential exhaustion detected",
                         ofi_metrics.timestamp)
      ELSE TradingSignal(order_book.symbol, "NoSignal", current_price, 0,
                         "No significant signal detected", ofi_metrics.timestamp)

(***************************************************************************)
(* Engine (strategy/OFI/engine.rs)                                         *)
(***************************************************************************)
\* OFIEngine.strategy_params of a configuration (main.rs builds them from the config)
StrategyParams(cfg) ==
  [imbalance_threshold |-> cfg.imbalance_threshold,
   absorption_threshold |-> cfg.absorption_threshold,
   delta_threshold |-> cfg.delta_threshold,
   lookback_period_ms |-> cfg.lookback_period_ms,
   market_condition_multiplier |-> 1]

\* an analysis that hands a snapshot to the rule engine without looking at its sides
analyze_symbol_unchecked(books, trades, cfg, symbol) ==
  LET order_book == get_order_book(books, symbol)
  IN  IF order_book = None THEN no_signal_with_reason(symbol, "No order book data")
      ELSE detect_signals(order_book, get_recent_trades(trades, symbol, 100),
                          StrategyParams(cfg), cfg.strong_signal_confidence,
                          cfg.reversal_signal_confidence, cfg.exhaustion_signal_confidence)

\* OFIEngine::analyze_symbol on given stores
analyze_symbol(books, trades, cfg, symbol) ==
  LET order_book == get_order_book(books, symbol)
  IN  IF order_book = None THEN no_signal_with_reason(symbol, "No order book data")
      ELSE IF order_book.bids = <<>> \/ order_book.asks = <<>>
      THEN no_signal_with_reason(symbol, "Order book is empty")
      ELSE detect_signals(order_book, get_recent_trades(trades, symbol, 100),
                          StrategyParams(cfg), cfg.strong_signal_confidence,
                          cfg.reversal_signal_confidence, cfg.exhaustion_signal_confidence)

(***************************************************************************)
(* Inputs: the configurations, snapshots and trades the model draws from   *)
(***************************************************************************)
\* OFIConfig values: the thresholds are fixed, the trade limit ranges over 1..MaxLimit
Configs ==
  {[trade_storage_limit |-> l, imbalance_threshold |-> 2, absorption_threshold |-> 1,
    delta_threshold |-> 100, lookback_period_ms |-> 5,
    strong_signal_confidence |-> 90, reversal_signal_confidence |-> 70,
    exhaustion_signal_confidence |-> 60] : l \in 1..MaxLimit}

\* level lists: one level a side; two levels a side; no bid at all
LevelInputs ==
  {[bids |-> <<OrderBookLevel(100, 1)>>, asks |-> <<OrderBookLevel(102, 1)>>],
   [bids |-> <<OrderBookLevel(100, 3), OrderBookLevel(98, 1)>>,
    asks |-> <<OrderBookLevel(102, 1), OrderBookLevel(104, 1)>>],
   [bids |-> <<>>, asks |-> <<OrderBookLevel(102, 1)>>]}

\* every level list for BTC, the two-level list for ETH
BookInputs ==
  {OrderBookSnapshot("BTC", l.bids, l.asks, 10) : l \in LevelInputs} \cup
  {OrderBookSnapshot("ETH", l.bids, l.asks, 10) : l \in {m \in LevelInputs : Len(m.bids) = 2}}

\* buys and sells inside and outside the lookback window for BTC, one buy for ETH
TradeInputs ==
  {TradeData("BTC", 100, 2, sd, ts) : sd \in {"buy", "sell"}, ts \in {1, 10}} \cup
  {TradeData("ETH", 100, 2, "buy", 10)}

(***************************************************************************)
(* Inputs of the rule engine: snapshots, trade lists and parameters around *)
(* the thresholds of the detectors, for one symbol                         *)
(***************************************************************************)
\* n levels of quantity q, the first at price p, each next one d further
Ladder(p, d, q, n) == [i \in 1..n |-> OrderBookLevel(p + (i - 1) * d, q)]

\* n trades alike
Repeat(trade, n) == [i \in 1..n |-> trade]

\* five bid levels against one small ask; the same with two equal top bids; five ask
\* levels against one small bid; two equal bids; bids out of order; a side or both
\* sides empty; a snapshot earlier than the look-back is long; a crossed book (best
\* bid above best ask) and a locked one (best bid equal to best ask); five levels
\* against a top level of no quantity, on either side
RuleBooks ==
  {OrderBookSnapshot("BTC", Ladder(100, 0 - 1, 10, 5), <<OrderBookLevel(101, 1)>>, 2000),
   OrderBookSnapshot("BTC", <<OrderBookLevel(100, 10)>> \o Ladder(100, 0 - 1, 10, 4),
                     <<OrderBookLevel(101, 1)>>, 2000),
   OrderBookSnapshot("BTC", <<OrderBookLevel(100, 1)>>, Ladder(101, 1, 10, 5), 2000),
   OrderBookSnapshot("BTC", Ladder(100, 0, 1, 2), <<OrderBookLevel(101, 1)>>, 2000),
   OrderBookSnapshot("BTC", <<OrderBookLevel(99, 1), OrderBookLevel(100, 1)>>,
                     <<OrderBookLevel(101, 1)>>, 2000),
   OrderBookSnapshot("BTC", <<>>, <<OrderBookLevel(101, 1)>>, 1000),
   OrderBookSnapshot("BTC", <<OrderBookLevel(100, 1)>>, <<>>, 1000),
   OrderBookSnapshot("BTC", <<>>, <<>>, 1000),
   OrderBookSnapshot("BTC", Ladder(100, 0, 1, 2), <<OrderBookLevel(101, 1)>>, 500),
   OrderBookSnapshot("BTC", <<OrderBookLevel(102, 1)>>, <<OrderBookLevel(100, 1)>>, 2000),
   OrderBookSnapshot("BTC", <<OrderBookLevel(100, 1)>>, <<OrderBookLevel(100, 1)>>, 2000),
   OrderBookSnapshot("BTC", <<OrderBookLevel(100, 0)>>, Ladder(101, 1, 10, 5), 2000),
   OrderBookSnapshot("BTC", Ladder(100, 0 - 1, 10, 5), <<OrderBookLevel(101, 0)>>, 2000)}

\* trade lists in arrival order: none; one buy; one sell; buys of 5000 in all followed
\* by sells of 3000 in all, the buys 1500 ms before the snapshots of time 2000; the
\* same with buys of 6000; a sell and a buy on either side of the cutoff 1000
RuleTrades ==
  {<<>>,
   <<TradeData("BTC", 100, 5, "buy", 1950)>>,
   <<TradeData("BTC", 100, 20, "sell", 1950)>>,
   Repeat(TradeData("BTC", 100, 5, "buy", 500), 10)
     \o Repeat(TradeData("BTC", 100, 6, "sell", 1950), 5),
   Repeat(TradeData("BTC", 100, 5, "buy", 500), 12)
     \o Repeat(TradeData("BTC", 100, 6, "sell", 1950), 5),
   <<TradeData("BTC", 100, 20, "sell", 999), TradeData("BTC", 100, 5, "buy", 1000)>>}

\* OFIConfig values around the inputs: delta thresholds 100, 500, 1000, look-backs of
\* 1 s and 60 s
RuleConfigs ==
  {[trade_storage_limit |-> 1000, imbalance_threshold |-> 5, absorption_threshold |-> 1,
    delta_threshold |-> d, lookback_period_ms |-> l,
    strong_signal_confidence |-> 90, reversal_signal_confidence |-> 70,
    exhaustion_signal_confidence |-> 60] : d \in {100, 500, 1000}, l \in {1000, 60000}}

\* an engine that has been given one of the snapshots and one of the trade lists
RulesInit ==
  /\ config \in RuleConfigs
  /\ \E book \in RuleBooks :
       order_book_storage = [s \in Symbols |-> IF s = "BTC" THEN book ELSE None]
  /\ \E trades \in RuleTrades :
       trade_storage = [s \in Symbols |-> IF s = "BTC" THEN trades ELSE <<>>]
  /\ trade_log = [s \in Symbols |-> <<>>]
  /\ book_log = [s \in Symbols |-> [last |-> None, count |-> 0]]
  /\ last_signal = None
  /\ last_recent = None
  /\ last_metrics = None

(***************************************************************************)
(* The engine driven directly: update_order_book, add_trade and            *)
(* analyze_symbol called in any order on one OFIEngine                     *)
(***************************************************************************)
EngineInit ==
  /\ config \in Configs
  /\ order_book_storage = [s \in Symbols |-> None]
  /\ trade_storage = [s \in Symbols |-> <<>>]
  /\ trade_log = [s \in Symbols |-> <<>>]
  /\ book_log = [s \in Symbols |-> [last |-> None, count |-> 0]]
  /\ last_signal = None
  /\ last_recent = None
  /\ last_metrics = None

\* number of add_trade calls made so far
TradesAdded == Len(trade_log["BTC"]) + Len(trade_log["ETH"])

\* OFIEngine::update_order_book
EngineUpdateOrderBook ==
  \E book \in BookInputs :
    /\ order_book_storage' = update_order_book(order_book_storage, book)
    /\ book_log' = [book_log EXCEPT ![book.symbol] =
                                  [last |-> book, count |-> Min(@.count + 1, 2)]]
    /\ last_recent' = None
    /\ last_metrics' = None
    /\ UNCHANGED <<config, trade_storage, trade_log, last_signal>>
    /\ UNCHANGED outsideEngine

\* OFIEngine::add_trade
EngineAddTrade ==
  \E trade \in TradeInputs :
    /\ TradesAdded < MaxTrades
    /\ trade_storage' = add_trade(trade_storage, trade, config)
    /\ trade_log' = [trade_log EXCEPT ![trade.symbol] = Append(@, trade)]
    /\ last_recent' = None
    /\ last_metrics' = None
    /\ UNCHANGED <<config, order_book_storage, book_log, last_signal>>
    /\ UNCHANGED outsideEngine

\* an analysis that takes the trades it reads out of the store
EngineAnalyzeDraining ==
  \E symbol \in Symbols :
    /\ last_signal' = analyze_symbol(order_book_storage, trade_storage, config, symbol)
    /\ trade_storage' = [trade_storage EXCEPT ![symbol] = <<>>]
    /\ last_recent' = None
    /\ last_metrics' = None
    /\ UNCHANGED <<config, order_book_storage, trade_log, book_log>>
    /\ UNCHANGED outsideEngine

\* OFIEngine::analyze_symbol
EngineAnalyze ==
  \E symbol \in Symbols :
    /\ last_signal' = analyze_symbol(order_book_storage, trade_storage, config, symbol)
    /\ last_recent' = None
    /\ last_metrics' = None
    /\ UNCHANGED <<config, order_book_storage, trade_storage, trade_log, book_log>>
    /\ UNCHANGED outsideEngine

\* the limits get_recent_trades is called with: below the stored count, and the 100 of
\* analyze_symbol
RecentLimits == {1, 100}

\* TradeStorage::get_recent_trades called on the engine's trade store
EngineRecentTrades ==
  \E symbol \in Symbols, limit \in RecentLimits :
    /\ last_recent' = [symbol |-> symbol, limit |-> limit,
                       result |-> get_recent_trades(trade_storage, symbol, limit)]
    /\ last_metrics' = None
    /\ UNCHANGED <<config, order_book_storage, trade_storage, trade_log, book_log, last_signal>>
    /\ UNCHANGED outsideEngine

\* detect_signals' call of calculate_ofi_metrics: the snapshot of a symbol, the trades
\* analyze_symbol collects for it and the look-back of the strategy parameters
EngineMetrics ==
  \E symbol \in Symbols :
    /\ order_book_storage[symbol] # None
    /\ LET trades == get_recent_trades(trade_storage, symbol, 100)
       IN  last_metrics' =
             [trades |-> trades,
              metrics |-> calculate_ofi_metrics(order_book_storage[symbol], trades,
                                                StrategyParams(config).lookback_period_ms)]
    /\ last_recent' = None
    /\ UNCHANGED <<config, order_book_storage, trade_storage, trade_log, book_log, last_signal>>
    /\ UNCHANGED outsideEngine

(***************************************************************************)
(* Venue frames (connectors/websocket.rs)                                  *)
(*                                                                         *)
(* A decimal string of a payload is the record NumStr(n) when it parses to *)
(* the number n and BadStr when str::parse fails on it.                    *)
(***************************************************************************)
NumStr(n) == [ok |-> TRUE, val |-> n]

BadStr == [ok |-> FALSE, val |-> 0]

\* the data of a response: the items serde_json::from_value yields, or its failure
Items(items) == [ok |-> TRUE, items |-> items]

Malformed == [ok |-> FALSE, items |-> <<>>]

\* first_book.bids.iter().map(parse).collect::<Result<Vec<_>, _>>()
ParseLevels(levels) ==
  IF \A i \in 1..Len(levels) : levels[i][1].ok /\ levels[i][2].ok
  THEN [ok |-> TRUE,
        val |-> [i \in 1..Len(levels) |-> OrderBookLevel(levels[i][1].val, levels[i][2].val)]]
  ELSE [ok |-> FALSE, val |-> <<>>]

\* parse_and_update_orderbook: the book store after the call
parse_and_update_orderbook(books, data, symbol) ==
  IF ~data.ok \/ data.items = <<>> THEN books
  ELSE LET first_book == data.items[1]
           bids_result == ParseLevels(first_book.bids)
           asks_result == ParseLevels(first_book.asks)
       IN  IF ~first_book.ts.ok THEN books
           ELSE IF bids_result.ok /\ asks_result.ok
           THEN update_order_book(books,
                  OrderBookSnapshot(symbol, bids_result.val, asks_result.val, first_book.ts.val))
           ELSE books

\* parse_and_update_trades: the trade store after the call
RECURSIVE AddParsedTrades(_, _, _, _)
AddParsedTrades(trades, items, symbol, cfg) ==
  IF items = <<>> THEN trades
  ELSE LET trade == Head(items)
           next == IF trade.price.ok /\ trade.size.ok /\ trade.ts.ok
                   THEN add_trade(trades,
                          TradeData(symbol, trade.price.val, trade.size.val, trade.side,
                                    trade.ts.val), cfg)
                   ELSE trades
       IN  AddParsedTrades(next, Tail(items), symbol, cfg)

parse_and_update_trades(trades, data, symbol, cfg) ==
  IF ~data.ok THEN trades ELSE AddParsedTrades(trades, data.items, symbol, cfg)

\* a text frame that parses as BitgetWsResponse with data
DataFrame(ch, id, d) == [kind |-> "data", channel |-> ch, inst_id |-> id, data |-> d]

\* a frame that handle_message answers without touching the engine: "pong", an error
\* event, a text that is no BitgetWsResponse, a response without data, a Close frame,
\* a Ping / Pong / Binary / raw frame
PlainFrame(k) == [kind |-> k, channel |-> "", inst_id |-> "", data |-> Malformed]

BookPayload(b, a, ts) == Items(<<[bids |-> b, asks |-> a, ts |-> ts]>>)

TradeItem(p, q, sd, ts) == [price |-> p, size |-> q, side |-> sd, ts |-> ts]

\* the symbol the feed session of the model is started for
FeedSymbol == "BTC"

FeedFrames ==
  {DataFrame("books", FeedSymbol,
             BookPayload(<<<<NumStr(100), NumStr(1)>>>>, <<<<NumStr(102), NumStr(1)>>>>, NumStr(10))),
   DataFrame("books", FeedSymbol,
             BookPayload(<<<<BadStr, NumStr(1)>>>>, <<<<NumStr(102), NumStr(1)>>>>, NumStr(10))),
   DataFrame("books", FeedSymbol, BookPayload(<<>>, <<<<NumStr(102), NumStr(1)>>>>, NumStr(10))),
   DataFrame("trade", FeedSymbol, Items(<<TradeItem(NumStr(100), NumStr(2), "buy", NumStr(10))>>)),
   DataFrame("trade", FeedSymbol, Items(<<TradeItem(NumStr(100), NumStr(2), "sell", NumStr(10))>>)),
   DataFrame("trade", FeedSymbol, Items(<<TradeItem(NumStr(100), BadStr, "sell", NumStr(10))>>)),
   DataFrame("ticker", FeedSymbol, Items(<<>>)),
   DataFrame("books", FeedSymbol,
             BookPayload(<<<<NumStr(100), NumStr(1)>>, <<BadStr, NumStr(1)>>>>,
                         <<<<NumStr(102), NumStr(1)>>>>, NumStr(10))),
   DataFrame("books", FeedSymbol,
             BookPayload(<<<<NumStr(100), NumStr(1)>>>>, <<<<NumStr(102), NumStr(1)>>>>, BadStr)),
   DataFrame("books", FeedSymbol, Malformed),
   DataFrame("trade", FeedSymbol, Malformed),
   PlainFrame("text"), PlainFrame("error"), PlainFrame("close")}

(***************************************************************************)
(* The feed session (connectors/websocket.rs): run_websocket_manager,      *)
(* connect_and_listen and handle_message for FeedSymbol.                   *)
(*                                                                         *)
(* Time: Tick is one second of wall-clock time.  The ages kept in          *)
(* recent_signals and since_admit stop counting at DedupSecs, the age from *)
(* which the gate treats all entries alike.  A sleep or timeout of n       *)
(* seconds lasts at least n Ticks.                                         *)
(***************************************************************************)
\* the gate keeps an entry while now.duration_since(time) < 5 s
DedupSecs == 5

\* a timeout around the send shorter than the gate's window
SendTimeoutShort == 5 - 2

\* the timeout around signal_tx.send
SendTimeoutSecs == 5

\* a reconnect delay shorter than the gate's window
ReconnectDelayShort == 5 - 4

\* tokio::time::sleep(Duration::from_secs(5)) between two connection attempts
ReconnectDelaySecs == 5

\* format!("{}_{}", signal.symbol, signal.signal_type): no signal type holds a '_', so
\* the string determines the pair and the pair stands for it
signal_key(signal) == <<signal.symbol, signal.signal_type>>

SignalKeys == Symbols \X (SignalType \ {"NoSignal"})

\* a retain that keeps an entry one second too long
RetainLate(table) ==
  LET kept == {k \in DOMAIN table : table[k] <= DedupSecs}
  IN  [k \in kept |-> table[k]]

\* recent_signals.retain(|_, time| now.duration_since(*time) < 5 s)
Retain(table) ==
  LET kept == {k \in DOMAIN table : table[k] < DedupSecs}
  IN  [k \in kept |-> table[k]]

\* the duplicate check of handle_message: the table after it, and should_send
Gate(table, key) ==
  LET kept == Retain(table)
  IN  IF key \in DOMAIN kept THEN [table |-> kept, should_send |-> FALSE]
      ELSE [table |-> (key :> 0) @@ kept, should_send |-> TRUE]

\* an engine handed to a connection that starts from empty stores
FreshEngine(stores) ==
  [books |-> [s \in Symbols |-> None], trades |-> [s \in Symbols |-> <<>>]]

\* engine.clone(): the clone shares both Arc<Mutex<..>> stores with the original
CloneEngine(stores) == stores

\* handle_message up to the analysis: the stores after the dispatch and the signal
HandleFrame(frame, books, trades, cfg, symbol) ==
  IF frame.kind = "data"
  THEN LET books1 == IF frame.channel = "books"
                     THEN parse_and_update_orderbook(books, frame.data, frame.inst_id)
                     ELSE books
           trades1 == IF frame.channel = "trade"
                      THEN parse_and_update_trades(trades, frame.data, frame.inst_id, cfg)
                      ELSE trades
       IN  [books |-> books1, trades |-> trades1, analysed |-> TRUE,
            signal |-> analyze_symbol(books1, trades1, cfg, symbol)]
  ELSE [books |-> books, trades |-> trades, analysed |-> FALSE, signal |-> None]

AgeTable(table) == [k \in DOMAIN table |-> Min(table[k] + 1, DedupSecs)]

FeedInit ==
  /\ ws_pc = "connecting"
  /\ connection_count = 0
  /\ recent_signals = <<>>
  /\ sleep_left = 0
  /\ send_left = 0
  /\ pending_signal = None
  /\ ws_channel = <<>>
  /\ rx_open = TRUE
  /\ since_admit = [k \in SignalKeys |-> [age |-> DedupSecs + 1, conn |-> 0]]
  /\ gate_log = None

\* one iteration of the manager loop up to the listen loop: count the attempt, start
\* connect_and_listen with a new recent_signals map, connect and subscribe
WsConnect ==
  /\ ws_pc = "connecting"
  /\ connection_count' = Min(connection_count + 1, MaxConnectionCount)
  /\ recent_signals' = <<>>
  /\ LET engine == CloneEngine([books |-> order_book_storage, trades |-> trade_storage])
     IN  /\ order_book_storage' = engine.books
         /\ trade_storage' = engine.trades
  /\ \E outcome \in {"subscribed", "connect failed", "subscribe failed"} :
       IF outcome = "subscribed"
       THEN ws_pc' = "streaming" /\ sleep_left' = sleep_left
       ELSE ws_pc' = "sleeping" /\ sleep_left' = ReconnectDelaySecs
  /\ UNCHANGED <<send_left, pending_signal, ws_channel, rx_open, since_admit, gate_log>>
  /\ UNCHANGED <<config, trade_log, book_log, last_signal, last_recent, last_metrics,
                 outsideFeed>>

\* read.next() yields a message: handle_message, the gate and the send
WsFrame ==
  \E frame \in FeedFrames :
    /\ ws_pc = "streaming"
    /\ LET h == HandleFrame(frame, order_book_storage, trade_storage, config, FeedSymbol)
           candidate == h.analysed /\ h.signal.signal_type # "NoSignal"
           key == signal_key(h.signal)
           g == IF candidate THEN Gate(recent_signals, key)
                ELSE [table |-> recent_signals, should_send |-> FALSE]
       IN  /\ order_book_storage' = h.books
           /\ trade_storage' = h.trades
           /\ recent_signals' = g.table
           /\ gate_log' = IF candidate
                          THEN [key |-> key, admitted |-> g.should_send,
                                gap |-> since_admit[key].age, conn |-> connection_count,
                                prev_conn |-> since_admit[key].conn, open |-> rx_open]
                          ELSE gate_log
           /\ since_admit' = IF g.should_send
                             THEN [since_admit EXCEPT
                                     ![key] = [age |-> 0, conn |-> connection_count]]
                             ELSE since_admit
           /\ IF g.should_send /\ rx_open /\ Len(ws_channel) < WsChannelCap
              THEN /\ ws_channel' = Append(ws_channel, h.signal)
                   /\ UNCHANGED <<ws_pc, pending_signal, send_left>>
              ELSE IF g.should_send /\ rx_open
              THEN /\ ws_pc' = "sending"
                   /\ pending_signal' = h.signal
                   /\ send_left' = SendTimeoutSecs
                   /\ UNCHANGED ws_channel
              ELSE UNCHANGED <<ws_pc, pending_signal, send_left, ws_channel>>
    /\ UNCHANGED <<connection_count, sleep_left, rx_open>>
    /\ UNCHANGED <<config, trade_log, book_log, last_signal, last_recent, last_metrics,
                 outsideFeed>>

\* the blocked send gets room in the channel; the timeout around it is dropped
WsSendComplete ==
  /\ ws_pc = "sending"
  /\ rx_open
  /\ Len(ws_channel) < WsChannelCap
  /\ ws_channel' = Append(ws_channel, pending_signal)
  /\ ws_pc' = "streaming"
  /\ pending_signal' = None
  /\ send_left' = 0
  /\ UNCHANGED <<connection_count, recent_signals, sleep_left, rx_open, since_admit, gate_log>>
  /\ UNCHANGED <<engineVars, outsideFeed>>

\* the blocked send finds the receiver dropped: handle_message returns Err, which
\* connect_and_listen logs before it goes on with the connection
WsSendClosed ==
  /\ ws_pc = "sending"
  /\ ~rx_open
  /\ ws_pc' = "streaming"
  /\ pending_signal' = None
  /\ send_left' = 0
  /\ UNCHANGED <<connection_count, recent_signals, sleep_left, ws_channel, rx_open,
                 since_admit, gate_log>>
  /\ UNCHANGED <<engineVars, outsideFeed>>

\* the 5 s around the blocked send run out: the signal is dropped
WsSendTimeout ==
  /\ ws_pc = "sending"
  /\ rx_open
  /\ Len(ws_channel) >= WsChannelCap
  /\ send_left = 0
  /\ ws_pc' = "streaming"
  /\ pending_signal' = None
  /\ UNCHANGED <<connection_count, recent_signals, sleep_left, send_left, ws_channel, rx_open,
                 since_admit, gate_log>>
  /\ UNCHANGED <<engineVars, outsideFeed>>

\* the end of connect_and_listen's loop and the start of the manager's sleep
WsBreak ==
  /\ ws_pc' = "sleeping"
  /\ sleep_left' = ReconnectDelaySecs
  /\ UNCHANGED <<connection_count, recent_signals, send_left, pending_signal, ws_channel,
                 rx_open, since_admit, gate_log>>
  /\ UNCHANGED <<engineVars, outsideFeed>>

\* read.next() yields Some(Err(e))
WsReadError == ws_pc = "streaming" /\ WsBreak

\* read.next() yields None
WsStreamEnd == ws_pc = "streaming" /\ WsBreak

\* the check after the select: no message for more than 120 s (the seconds of silence
\* are counted in the part on the clocks of a session, not here)
WsInactive == ws_pc = "streaming" /\ WsBreak

\* ping_interval.tick(): the ping is written, or the write fails and the loop ends
WsPing ==
  /\ ws_pc = "streaming"
  /\ \E sent \in BOOLEAN :
       IF sent THEN UNCHANGED vars ELSE WsBreak

\* the manager's sleep is over: next iteration of its loop
WsWake ==
  /\ ws_pc = "sleeping"
  /\ sleep_left = 0
  /\ ws_pc' = "connecting"
  /\ UNCHANGED <<connection_count, recent_signals, sleep_left, send_left, pending_signal,
                 ws_channel, rx_open, since_admit, gate_log>>
  /\ UNCHANGED <<engineVars, outsideFeed>>

\* the holder of the receiver takes a signal (run_analysis_with_config takes one at most;
\* run_websocket_manager hands the receiver to any caller)
WsRecv ==
  /\ rx_open
  /\ ws_channel # <<>>
  /\ ws_channel' = Tail(ws_channel)
  /\ UNCHANGED <<ws_pc, connection_count, recent_signals, sleep_left, send_left,
                 pending_signal, rx_open, since_admit, gate_log>>
  /\ UNCHANGED <<engineVars, outsideFeed>>

\* the receiver is dropped: run_analysis_with_config returns, with a signal or after
\* analysis_duration
WsRecvDrop ==
  /\ rx_open
  /\ ws_channel' = <<>>
  /\ rx_open' = FALSE
  /\ UNCHANGED <<ws_pc, connection_count, recent_signals, sleep_left, send_left,
                 pending_signal, since_admit, gate_log>>
  /\ UNCHANGED <<engineVars, outsideFeed>>

\* one second passes
FeedTick ==
  /\ recent_signals' = AgeTable(recent_signals)
  /\ since_admit' = [k \in SignalKeys |->
                       [since_admit[k] EXCEPT !.age = IF @ > DedupSecs THEN @ ELSE Min(@ + 1, DedupSecs)]]
  /\ sleep_left' = Max(sleep_left - 1, 0)
  /\ send_left' = Max(send_left - 1, 0)
  /\ UNCHANGED <<ws_pc, connection_count, pending_signal, ws_channel, rx_open, gate_log>>
  /\ UNCHANGED <<engineVars, outsideFeed>>

(***************************************************************************)
(* The supervisor and its tasks (main.rs): main's select loop, the         *)
(* watchlist branch, spawn_analysis_task_with_permit and                   *)
(* analyze_symbol_data.                                                    *)
(*                                                                         *)
(* This part follows the tasks' control flow and leaves time out: a wait   *)
(* with a deadline ends either way.  What the engine makes of a frame is   *)
(* an input here, the signal type analyze_symbol returns for it.           *)
(***************************************************************************)
Tasks == 1..MaxTasks

\* what call_python_screener returns: Ok(candidates) or Err
ScreenerOk(c) == [ok |-> TRUE, candidates |-> c]

ScreenerErr == [ok |-> FALSE, candidates |-> <<>>]

RECURSIVE SeqsUpTo(_, _)
SeqsUpTo(S, n) ==
  IF n = 0 THEN {<<>>}
  ELSE SeqsUpTo(S, n - 1) \cup {Append(q, x) : q \in SeqsUpTo(S, n - 1), x \in S}

ScreenerResults == {ScreenerErr} \cup {ScreenerOk(c) : c \in SeqsUpTo(Symbols, MaxCandidates)}

\* the signal types a frame's analysis comes out as
VerdictInputs == {"NoSignal", "StrongBuy"}

\* the match on call_python_screener(): the list cut to max_concurrent_tasks / 2
\* entries, or an empty list when the screener failed
NewCandidates(result) ==
  IF result.ok
  THEN LET max_candidates == max_concurrent_tasks \div 2
       IN  IF Len(result.candidates) > max_candidates
           THEN Take(result.candidates, max_candidates)
           ELSE result.candidates
  ELSE <<>>

\* the loop over running_tasks.keys() that fills symbols_to_stop
SymbolsToStop(running, candidates) ==
  {symbol \in DOMAIN running : symbol \notin Range(candidates)}

\* a start loop that spawns a task for every candidate, running or not
RECURSIVE StartAlways(_, _, _, _)
StartAlways(candidates, running, symbols, next) ==
  IF candidates = <<>> THEN [running |-> running, symbols |-> symbols, next |-> next]
  ELSE LET candidate == Head(candidates)
       IN  StartAlways(Tail(candidates),
                       (candidate :> next) @@ running,
                       [symbols EXCEPT ![next] = candidate],
                       next + 1)

\* the loop over new_candidates that spawns the missing tasks: running_tasks, the
\* tasks' symbols and the next task number after it
RECURSIVE StartTasks(_, _, _, _)
StartTasks(candidates, running, symbols, next) ==
  IF candidates = <<>> THEN [running |-> running, symbols |-> symbols, next |-> next]
  ELSE LET candidate == Head(candidates)
       IN  IF candidate \notin DOMAIN running
           THEN StartTasks(Tail(candidates),
                           (candidate :> next) @@ running,
                           [symbols EXCEPT ![next] = candidate],
                           next + 1)
           ELSE StartTasks(Tail(candidates), running, symbols, next)

\* a semaphore that hands out permits it does not have
PermitAlways(permits) == TRUE

\* Semaphore::acquire completes when a permit is free
PermitAvailable(permits) == permits > 0

\* a reconnect loop that skips the shutdown check at its top
TopIgnoresShutdown(state) == FALSE

\* shutdown_rx.try_recv().is_ok() at the top of the reconnect loop
TopSeesShutdown(state) == state = "sent"

SupInit ==
  /\ running_tasks = <<>>
  /\ task_symbol = [t \in Tasks |-> ""]
  /\ task_pc = [t \in Tasks |-> "unborn"]
  /\ shutdown = [t \in Tasks |-> "empty"]
  /\ task_pending = [t \in Tasks |-> "NoSignal"]
  /\ next_task = 1
  /\ available_permits = max_concurrent_tasks
  /\ signal_channel = <<>>
  /\ sup_pc = "select"
  /\ new_candidates = <<>>
  /\ symbols_to_stop = {}
  /\ join_task = 0
  /\ screener_result = None
  /\ running_before = <<>>
  /\ next_before = 1

\* watchlist_refresh_timer.tick(): call the screener, build new_candidates and
\* symbols_to_stop
SupTick ==
  /\ sup_pc = "select"
  /\ \E result \in ScreenerResults :
       LET candidates == NewCandidates(result)
       IN  /\ next_task + Cardinality(Range(candidates) \ DOMAIN running_tasks) <= MaxTasks + 1
           /\ new_candidates' = candidates
           /\ symbols_to_stop' = SymbolsToStop(running_tasks, candidates)
           /\ screener_result' = result
  /\ running_before' = running_tasks
  /\ next_before' = next_task
  /\ sup_pc' = "stopping"
  /\ UNCHANGED <<running_tasks, task_symbol, task_pc, shutdown, task_pending, next_task,
                 available_permits, signal_channel, join_task>>
  /\ UNCHANGED outsideSup

\* one round of the stop loop up to its wait: remove the entry, send the shutdown
\* signal (to no effect when the task is gone), start waiting on the handle
SupStop ==
  /\ sup_pc = "stopping"
  /\ \E symbol \in symbols_to_stop :
       LET t == running_tasks[symbol]
       IN  /\ running_tasks' = [s \in DOMAIN running_tasks \ {symbol} |-> running_tasks[s]]
           /\ shutdown' = IF task_pc[t] = "done" THEN shutdown
                          ELSE [shutdown EXCEPT ![t] = "sent"]
           /\ join_task' = t
           /\ symbols_to_stop' = symbols_to_stop \ {symbol}
  /\ sup_pc' = "joining"
  /\ UNCHANGED <<task_symbol, task_pc, task_pending, next_task, available_permits,
                 signal_channel, new_candidates, screener_result, running_before, next_before>>
  /\ UNCHANGED outsideSup

\* timeout(5 s, handle) returns Ok: the task has finished
SupJoined ==
  /\ sup_pc = "joining"
  /\ task_pc[join_task] = "done"
  /\ sup_pc' = "stopping"
  /\ join_task' = 0
  /\ UNCHANGED <<running_tasks, task_symbol, task_pc, shutdown, task_pending, next_task,
                 available_permits, signal_channel, new_candidates, symbols_to_stop,
                 screener_result, running_before, next_before>>
  /\ UNCHANGED outsideSup

\* a wait on the handle without a deadline: while the task has not finished the
\* supervisor stays where it is
SupJoinWaits ==
  /\ sup_pc = "joining"
  /\ task_pc[join_task] # "done"
  /\ UNCHANGED vars

\* timeout(5 s, handle) returns Err: the task has not finished in time and is left alone
SupJoinTimeout ==
  /\ sup_pc = "joining"
  /\ task_pc[join_task] # "done"
  /\ sup_pc' = "stopping"
  /\ join_task' = 0
  /\ UNCHANGED <<running_tasks, task_symbol, task_pc, shutdown, task_pending, next_task,
                 available_permits, signal_channel, new_candidates, symbols_to_stop,
                 screener_result, running_before, next_before>>
  /\ UNCHANGED outsideSup

\* the start loop: spawn a task for every candidate that is not running
SupStart ==
  /\ sup_pc = "stopping"
  /\ symbols_to_stop = {}
  /\ LET started == StartTasks(new_candidates, running_tasks, task_symbol, next_task)
     IN  /\ running_tasks' = started.running
         /\ task_symbol' = started.symbols
         /\ next_task' = started.next
         /\ task_pc' = [t \in Tasks |->
                          IF t >= next_task /\ t < started.next THEN "acquire" ELSE task_pc[t]]
  /\ sup_pc' = "select"
  /\ UNCHANGED <<shutdown, task_pending, available_permits, signal_channel, new_candidates,
                 symbols_to_stop, join_task, screener_result, running_before, next_before>>
  /\ UNCHANGED outsideSup

\* what call_python_executor returns: Ok (also after the warning about a status "error"
\* in the reply) or Err
ExecutorResults == {"ok", "err"}

\* a loop that an Err of the executor ends
AfterExecutorStops(result) == IF result = "err" THEN "exited" ELSE "select"

\* where the loop goes after if let Err(e) = call_python_executor(signal): the Err is
\* logged and the branch ends
AfterExecutor(result) == "select"

\* signal_rx.recv() yields a signal
RecvSignal ==
  /\ sup_pc = "select"
  /\ signal_channel # <<>>
  /\ signal_channel' = Tail(signal_channel)
  /\ UNCHANGED <<running_tasks, task_symbol, task_pc, shutdown, task_pending, next_task,
                 available_permits, new_candidates, symbols_to_stop, join_task,
                 screener_result, running_before, next_before>>

\* the select's second branch up to the call: the signal is taken from the channel and
\* call_python_executor is entered, inside the branch
Recv == RecvSignal /\ sup_pc' = "executing"

\* call_python_executor returns
Executed ==
  /\ sup_pc = "executing"
  /\ \E result \in ExecutorResults : sup_pc' = AfterExecutor(result)
  /\ UNCHANGED <<running_tasks, task_symbol, task_pc, shutdown, task_pending, next_task,
                 available_permits, signal_channel, new_candidates, symbols_to_stop,
                 join_task, screener_result, running_before, next_before>>

SupExecuted == Executed /\ UNCHANGED outsideSup

SupRecv == Recv /\ UNCHANGED outsideSup

\* the task's state variables other than task_pc, shutdown and available_permits
TaskFrame == <<running_tasks, task_symbol, next_task, sup_pc, new_candidates, symbols_to_stop,
               join_task, screener_result, running_before, next_before>>

\* spawn_analysis_task_with_permit: the task has its permit
TaskAcquire(t) ==
  /\ task_pc[t] = "acquire"
  /\ PermitAvailable(available_permits)
  /\ available_permits' = available_permits - 1
  /\ task_pc' = [task_pc EXCEPT ![t] = "init"]
  /\ UNCHANGED <<TaskFrame, shutdown, task_pending, signal_channel>>
  /\ UNCHANGED outsideSup

\* a task that keeps its permit when the configuration or the URL fails
TaskInitLeaks(t) ==
  /\ task_pc[t] = "init"
  /\ \E loaded \in BOOLEAN :
       task_pc' = [task_pc EXCEPT ![t] = IF loaded THEN "top" ELSE "done"]
  /\ UNCHANGED <<TaskFrame, shutdown, task_pending, signal_channel, available_permits>>
  /\ UNCHANGED outsideSup

\* analyze_symbol_data before its loop: load the configuration and parse the URL; the
\* task returns, which drops its permit, when either fails
TaskInit(t) ==
  /\ task_pc[t] = "init"
  /\ \E loaded \in BOOLEAN :
       IF loaded
       THEN task_pc' = [task_pc EXCEPT ![t] = "top"] /\ UNCHANGED available_permits
       ELSE /\ task_pc' = [task_pc EXCEPT ![t] = "done"]
            /\ available_permits' = available_permits + 1
  /\ UNCHANGED <<TaskFrame, shutdown, task_pending, signal_channel>>
  /\ UNCHANGED outsideSup

\* the top of 'reconnect_loop: return on a pending shutdown signal, else connect
TaskTop(t) ==
  /\ task_pc[t] = "top"
  /\ IF TopSeesShutdown(shutdown[t])
     THEN /\ shutdown' = [shutdown EXCEPT ![t] = "received"]
          /\ task_pc' = [task_pc EXCEPT ![t] = "done"]
          /\ available_permits' = available_permits + 1
     ELSE /\ task_pc' = [task_pc EXCEPT ![t] = "connecting"]
          /\ UNCHANGED <<shutdown, available_permits>>
  /\ UNCHANGED <<TaskFrame, task_pending, signal_channel>>
  /\ UNCHANGED outsideSup

\* connect_async and the subscription: into the message loop, or, when the connection
\* fails or the subscription cannot be written, into the 5 s sleep
TaskConnect(t) ==
  /\ task_pc[t] = "connecting"
  /\ \E outcome \in {"subscribed", "connect failed", "subscribe failed"} :
       task_pc' = [task_pc EXCEPT ![t] = IF outcome = "subscribed" THEN "streaming"
                                         ELSE "sleeping"]
  /\ UNCHANGED <<TaskFrame, shutdown, available_permits, task_pending, signal_channel>>
  /\ UNCHANGED outsideSup

\* the select's shutdown branch: shutdown_rx.recv() yields and the task returns
TaskShutdown(t) ==
  /\ task_pc[t] \in {"streaming", "parked"}
  /\ shutdown[t] = "sent"
  /\ shutdown' = [shutdown EXCEPT ![t] = "received"]
  /\ task_pc' = [task_pc EXCEPT ![t] = "done"]
  /\ available_permits' = available_permits + 1
  /\ UNCHANGED <<TaskFrame, task_pending, signal_channel>>
  /\ UNCHANGED outsideSup

\* a books or trade frame whose analysis comes out as verdict: a signal other than
\* NoSignal goes to signal_tx.send, which blocks while the channel is full
TaskData(t) ==
  /\ task_pc[t] = "streaming"
  /\ \E verdict \in VerdictInputs :
       IF verdict = "NoSignal"
       THEN UNCHANGED <<task_pc, task_pending, signal_channel>>
       ELSE IF Len(signal_channel) < SignalChannelCap
       THEN /\ signal_channel' =
                 Append(signal_channel, [symbol |-> task_symbol[t], signal_type |-> verdict])
            /\ UNCHANGED <<task_pc, task_pending>>
       ELSE /\ task_pc' = [task_pc EXCEPT ![t] = "sending"]
            /\ task_pending' = [task_pending EXCEPT ![t] = verdict]
            /\ UNCHANGED signal_channel
  /\ UNCHANGED <<TaskFrame, shutdown, available_permits>>
  /\ UNCHANGED outsideSup

\* the blocked signal_tx.send gets room in the channel
TaskSendComplete(t) ==
  /\ task_pc[t] = "sending"
  /\ Len(signal_channel) < SignalChannelCap
  /\ signal_channel' =
       Append(signal_channel, [symbol |-> task_symbol[t], signal_type |-> task_pending[t]])
  /\ task_pc' = [task_pc EXCEPT ![t] = "streaming"]
  /\ task_pending' = [task_pending EXCEPT ![t] = "NoSignal"]
  /\ UNCHANGED <<TaskFrame, shutdown, available_permits>>
  /\ UNCHANGED outsideSup

\* a break out of the message loop, into the 5 s sleep: an error event of the venue,
\* a pong that cannot be written, a read error
TaskBreak(t) ==
  /\ task_pc[t] = "streaming"
  /\ \E cause \in {"error event", "pong failed", "read error"} :
       task_pc' = [task_pc EXCEPT ![t] = "sleeping"]
  /\ UNCHANGED <<TaskFrame, shutdown, available_permits, task_pending, signal_channel>>
  /\ UNCHANGED outsideSup

\* read.next() yields None: the pattern Some(msg) fails, the select drops that branch
\* and waits on shutdown_rx.recv() alone
TaskStreamEnd(t) ==
  /\ task_pc[t] = "streaming"
  /\ task_pc' = [task_pc EXCEPT ![t] = "parked"]
  /\ UNCHANGED <<TaskFrame, shutdown, available_permits, task_pending, signal_channel>>
  /\ UNCHANGED outsideSup

\* the 5 s sleep is over: back to the top of 'reconnect_loop
TaskWake(t) ==
  /\ task_pc[t] = "sleeping"
  /\ task_pc' = [task_pc EXCEPT ![t] = "top"]
  /\ UNCHANGED <<TaskFrame, shutdown, available_permits, task_pending, signal_channel>>
  /\ UNCHANGED outsideSup

(***************************************************************************)
(* One supervised session with its engine (main.rs, analyze_symbol_data):  *)
(* the message loop's handling of a text frame, the sends to main, main's  *)
(* receipt of the signals, and the seconds that pass between them.  The    *)
(* task is task 1, started for FeedSymbol.                                 *)
(***************************************************************************)
\* book_data.bids.iter().filter_map(|b| parse_level(b).ok()).collect()
RECURSIVE FilterLevels(_)
FilterLevels(levels) ==
  IF levels = <<>> THEN <<>>
  ELSE LET level == Head(levels)
           rest == FilterLevels(Tail(levels))
       IN  IF level[1].ok /\ level[2].ok
           THEN <<OrderBookLevel(level[1].val, level[2].val)>> \o rest
           ELSE rest

\* the signal the task builds from the engine's: symbol and format!("{:?}", signal_type)
MainSignal(signal) == [symbol |-> signal.symbol, signal_type |-> signal.signal_type]

\* a session that sends whatever the analysis returns
EmittedAlways(signal) == <<MainSignal(signal)>>

\* what one analysis adds to the signals to send
Emitted(signal) == IF signal.signal_type = "NoSignal" THEN <<>> ELSE <<MainSignal(signal)>>

\* a books branch whose analysis reads the stores as they were before the update
MainBooksStale(books, trades, cfg, data, msg_symbol, symbol) ==
  IF ~data.ok \/ data.items = <<>>
  THEN [books |-> books, trades |-> trades, signals |-> <<>>, last |-> None]
  ELSE LET book_data == data.items[1]
           bids == FilterLevels(book_data.bids)
           asks == FilterLevels(book_data.asks)
       IN  IF bids # <<>> /\ asks # <<>>
           THEN LET timestamp == IF book_data.ts.ok THEN book_data.ts.val ELSE 0
                    books1 == update_order_book(books,
                                OrderBookSnapshot(msg_symbol, bids, asks, timestamp))
                    signal == analyze_symbol(books, trades, cfg, symbol)
                IN  [books |-> books1, trades |-> trades, signals |-> Emitted(signal),
                     last |-> signal]
           ELSE [books |-> books, trades |-> trades, signals |-> <<>>, last |-> None]

\* the books branch: stores after it, signals to send and the last analysis
MainBooks(books, trades, cfg, data, msg_symbol, symbol) ==
  IF ~data.ok \/ data.items = <<>>
  THEN [books |-> books, trades |-> trades, signals |-> <<>>, last |-> None]
  ELSE LET book_data == data.items[1]
           bids == FilterLevels(book_data.bids)
           asks == FilterLevels(book_data.asks)
       IN  IF bids # <<>> /\ asks # <<>>
           THEN LET timestamp == IF book_data.ts.ok THEN book_data.ts.val ELSE 0
                    books1 == update_order_book(books,
                                OrderBookSnapshot(msg_symbol, bids, asks, timestamp))
                    signal == analyze_symbol(books1, trades, cfg, symbol)
                IN  [books |-> books1, trades |-> trades, signals |-> Emitted(signal),
                     last |-> signal]
           ELSE [books |-> books, trades |-> trades, signals |-> <<>>, last |-> None]

\* the trade branch: every item that parses is added and followed by an analysis
RECURSIVE MainTrades(_, _, _, _, _, _, _, _)
MainTrades(books, trades, cfg, items, msg_symbol, symbol, signals, last) ==
  IF items = <<>>
  THEN [books |-> books, trades |-> trades, signals |-> signals, last |-> last]
  ELSE LET trade_item == Head(items)
       IN  IF trade_item.price.ok /\ trade_item.size.ok /\ trade_item.ts.ok
           THEN LET trades1 == add_trade(trades,
                                 TradeData(msg_symbol, trade_item.price.val,
                                           trade_item.size.val, trade_item.side,
                                           trade_item.ts.val), cfg)
                    signal == analyze_symbol(books, trades1, cfg, symbol)
                IN  MainTrades(books, trades1, cfg, Tail(items), msg_symbol, symbol,
                               signals \o Emitted(signal), signal)
           ELSE MainTrades(books, trades, cfg, Tail(items), msg_symbol, symbol, signals,
                           last)

\* a text frame that parses as BitgetWsResponse: stores after it and signals to send
MainHandle(frame, books, trades, cfg, symbol) ==
  IF frame.channel = "books"
  THEN MainBooks(books, trades, cfg, frame.data, frame.inst_id, symbol)
  ELSE IF frame.channel = "trade"
  THEN IF frame.data.ok
       THEN MainTrades(books, trades, cfg, frame.data.items, frame.inst_id, symbol, <<>>,
                       None)
       ELSE [books |-> books, trades |-> trades, signals |-> <<>>, last |-> None]
  ELSE [books |-> books, trades |-> trades, signals |-> <<>>, last |-> None]

\* a task that breaks out of the message loop when a text does not parse
AfterTextStrict(frame, signals) ==
  IF frame.kind # "data" \/ ~frame.data.ok THEN "sleeping"
  ELSE IF signals = <<>> THEN "streaming" ELSE "sending"

\* where the task stands after a text frame: out of the message loop, in the 5 s sleep,
\* if the text holds "event":"error"; else in signal_tx.send if an analysis found a
\* signal, else back at read.next(); a text that does not parse is logged, no more
AfterText(frame, signals) ==
  IF frame.kind = "error" THEN "sleeping"
  ELSE IF signals = <<>> THEN "streaming" ELSE "sending"

\* the frames the session is fed: those of FeedFrames that carry data, a text that is
\* no BitgetWsResponse, an error event, and a trade frame of two items
MainFrames ==
  {frame \in FeedFrames : frame.kind \in {"data", "text", "error"}} \cup
  {DataFrame("trade", FeedSymbol,
             Items(<<TradeItem(NumStr(100), NumStr(2), "buy", NumStr(10)),
                     TradeItem(NumStr(100), NumStr(2), "sell", NumStr(10))>>))}

MainInit ==
  /\ main_queue = <<>>
  /\ since_forward = [k \in SignalKeys |-> DedupSecs + 1]
  /\ forward_log = None
  /\ dispatched = None
  /\ send_wait = 0

\* main after the tick that started task 1 for FeedSymbol; the task has its permit and
\* its configuration
SupRunning ==
  /\ running_tasks = (FeedSymbol :> 1)
  /\ task_symbol = [t \in Tasks |-> IF t = 1 THEN FeedSymbol ELSE ""]
  /\ task_pc = [t \in Tasks |-> IF t = 1 THEN "top" ELSE "unborn"]
  /\ shutdown = [t \in Tasks |-> "empty"]
  /\ task_pending = [t \in Tasks |-> "NoSignal"]
  /\ next_task = 2
  /\ available_permits = max_concurrent_tasks - 1
  /\ signal_channel = <<>>
  /\ sup_pc = "select"
  /\ new_candidates = <<FeedSymbol>>
  /\ symbols_to_stop = {}
  /\ join_task = 0
  /\ screener_result = ScreenerOk(<<FeedSymbol>>)
  /\ running_before = <<>>
  /\ next_before = 1

\* read.next() yields a data frame: the engine is updated and analysed, and the signals
\* other than NoSignal are lined up for signal_tx.send
MainFrame ==
  \E frame \in MainFrames :
    /\ task_pc[1] = "streaming"
    /\ LET h == MainHandle(frame, order_book_storage, trade_storage, config, task_symbol[1])
       IN  /\ order_book_storage' = h.books
           /\ trade_storage' = h.trades
           /\ main_queue' = h.signals
           /\ dispatched' = [frame |-> frame, signal |-> h.last]
           /\ send_wait' = 0
           /\ task_pc' = [task_pc EXCEPT ![1] = AfterText(frame, h.signals)]
    /\ UNCHANGED <<config, trade_log, book_log, last_signal, last_recent, last_metrics,
                   feedVars, since_forward,
                   forward_log, lockVars, clockVars>>
    /\ UNCHANGED <<running_tasks, task_symbol, shutdown, task_pending, next_task,
                   available_permits, signal_channel, sup_pc, new_candidates,
                   symbols_to_stop, join_task, screener_result, running_before, next_before>>

\* signal_tx.send(new_signal).await completes: there is room in the channel
MainSend ==
  /\ task_pc[1] = "sending"
  /\ main_queue # <<>>
  /\ Len(signal_channel) < SignalChannelCap
  /\ signal_channel' = Append(signal_channel, Head(main_queue))
  /\ main_queue' = Tail(main_queue)
  /\ send_wait' = 0
  /\ dispatched' = None
  /\ task_pc' = IF Tail(main_queue) = <<>> THEN [task_pc EXCEPT ![1] = "streaming"]
                ELSE task_pc
  /\ UNCHANGED <<engineVars, feedVars, since_forward, forward_log, lockVars, clockVars>>
  /\ UNCHANGED <<running_tasks, task_symbol, shutdown, task_pending, next_task,
                 available_permits, sup_pc, new_candidates, symbols_to_stop, join_task,
                 screener_result, running_before, next_before>>

\* main receives a signal and hands it to the executor: the branch as one step, main is
\* back at its select
MainRecv ==
  /\ RecvSignal
  /\ UNCHANGED sup_pc
  /\ LET key == signal_key(Head(signal_channel))
     IN  /\ forward_log' = [key |-> key, gap |-> since_forward[key]]
         /\ since_forward' = [since_forward EXCEPT ![key] = 0]
  /\ dispatched' = None
  /\ UNCHANGED <<engineVars, feedVars, main_queue, send_wait, lockVars, clockVars>>

\* one second passes
MainTick ==
  /\ task_pc[1] = "sending" => Len(signal_channel) >= SignalChannelCap
  /\ since_forward' = [k \in SignalKeys |->
                         IF since_forward[k] > DedupSecs THEN since_forward[k]
                         ELSE Min(since_forward[k] + 1, DedupSecs)]
  /\ send_wait' = IF task_pc[1] = "sending" THEN Min(send_wait + 1, SendTimeoutSecs + 1)
                  ELSE send_wait
  /\ dispatched' = None
  /\ UNCHANGED <<engineVars, feedVars, supVars, main_queue, forward_log, lockVars, clockVars>>

(***************************************************************************)
(* The engine under concurrent callers (strategy/OFI/engine.rs): the three *)
(* methods of OFIEngine step by step, with the two tokio Mutexes around    *)
(* the stores.  A guard is a local of the method: the lock it holds is     *)
(* released when the method returns.                                       *)
(***************************************************************************)
Callers == 1..MaxCallers

\* the calls the callers make
LockCalls ==
  {[op |-> "update_order_book",
    arg |-> OrderBookSnapshot(FeedSymbol, <<OrderBookLevel(100, 1)>>,
                              <<OrderBookLevel(102, 1)>>, 10)],
   [op |-> "add_trade", arg |-> TradeData(FeedSymbol, 100, 2, "buy", 10)]} \cup
  {[op |-> "analyze_symbol", arg |-> symbol] : symbol \in Symbols}

\* a caller's record while it is in no call
NoCall == [op |-> "none", arg |-> None, order_book |-> None, recent_trades |-> <<>>]

\* a lock order that differs from caller to caller
lock_order_mixed(c) == IF c = 1 THEN <<"book", "trades">> ELSE <<"trades", "book">>

\* analyze_symbol's two lock().await in the order it makes them
lock_order(c) == <<"book", "trades">>

\* the locks a call takes, in order
LocksOf(c, op) ==
  IF op = "update_order_book" THEN <<"book">>
  ELSE IF op = "add_trade" THEN <<"trades">>
  ELSE lock_order(c)

\* the position at which a call waits for a lock
Waiting(lock) == IF lock = "book" THEN "book_lock" ELSE "trade_lock"

\* the position after the n-th lock of a call is taken
AfterLock(c, op, n) ==
  IF n < Len(LocksOf(c, op)) THEN Waiting(LocksOf(c, op)[n + 1])
  ELSE IF op = "update_order_book" THEN "update"
  ELSE IF op = "add_trade" THEN "add"
  ELSE "read"

\* the number of locks the caller holds
Held(c) == (IF book_lock = c THEN 1 ELSE 0) + (IF trade_lock = c THEN 1 ELSE 0)

LockInit ==
  /\ book_lock = 0
  /\ trade_lock = 0
  /\ call_pc = [c \in Callers |-> "idle"]
  /\ call = [c \in Callers |-> NoCall]

\* a caller enters a method of the engine and reaches its first lock().await
CallBegin(c) ==
  /\ call_pc[c] = "idle"
  /\ \E m \in LockCalls :
       /\ call' = [call EXCEPT ![c] = [NoCall EXCEPT !.op = m.op, !.arg = m.arg]]
       /\ call_pc' = [call_pc EXCEPT ![c] = Waiting(LocksOf(c, m.op)[1])]
  /\ UNCHANGED <<book_lock, trade_lock, engineVars, feedVars, supVars, mainVars, clockVars>>

\* self.order_book_storage.lock().await completes
AcquireBook(c) ==
  /\ call_pc[c] = "book_lock"
  /\ book_lock = 0
  /\ book_lock' = c
  /\ call_pc' = [call_pc EXCEPT ![c] = AfterLock(c, call[c].op, Held(c) + 1)]
  /\ UNCHANGED <<trade_lock, call, engineVars, feedVars, supVars, mainVars, clockVars>>

\* self.trade_storage.lock().await completes
AcquireTrades(c) ==
  /\ call_pc[c] = "trade_lock"
  /\ trade_lock = 0
  /\ trade_lock' = c
  /\ call_pc' = [call_pc EXCEPT ![c] = AfterLock(c, call[c].op, Held(c) + 1)]
  /\ UNCHANGED <<book_lock, call, engineVars, feedVars, supVars, mainVars, clockVars>>

\* OFIEngine::update_order_book past its lock: the update, and the return that drops
\* the guard
CallUpdate(c) ==
  /\ call_pc[c] = "update"
  /\ order_book_storage' = update_order_book(order_book_storage, call[c].arg)
  /\ book_lock' = 0
  /\ call_pc' = [call_pc EXCEPT ![c] = "idle"]
  /\ call' = [call EXCEPT ![c] = NoCall]
  /\ UNCHANGED <<config, trade_storage, trade_log, book_log, last_signal, last_recent, last_metrics,
                 trade_lock, feedVars, supVars, mainVars, clockVars>>

\* OFIEngine::add_trade past its lock: the insertion, and the return that drops the guard
CallAdd(c) ==
  /\ call_pc[c] = "add"
  /\ trade_storage' = add_trade(trade_storage, call[c].arg, config)
  /\ trade_lock' = 0
  /\ call_pc' = [call_pc EXCEPT ![c] = "idle"]
  /\ call' = [call EXCEPT ![c] = NoCall]
  /\ UNCHANGED <<config, order_book_storage, trade_log, book_log, last_signal, last_recent, last_metrics,
                 book_lock, feedVars, supVars, mainVars, clockVars>>

\* analyze_symbol past its locks: the snapshot is cloned and the trades are collected;
\* without snapshot, or with an empty side, the method returns NoSignal, which drops
\* both guards; else it calls detect_signals
CallRead(c) ==
  /\ call_pc[c] = "read"
  /\ LET symbol == call[c].arg
         order_book == get_order_book(order_book_storage, symbol)
     IN  IF order_book = None \/ order_book.bids = <<>> \/ order_book.asks = <<>>
         THEN /\ last_signal' = analyze_symbol(order_book_storage, trade_storage, config, symbol)
              /\ book_lock' = 0
              /\ trade_lock' = 0
              /\ call_pc' = [call_pc EXCEPT ![c] = "idle"]
              /\ call' = [call EXCEPT ![c] = NoCall]
         ELSE /\ call' = [call EXCEPT ![c].order_book = order_book,
                                      ![c].recent_trades =
                                        get_recent_trades(trade_storage, symbol, 100)]
              /\ call_pc' = [call_pc EXCEPT ![c] = "detect"]
              /\ UNCHANGED <<last_signal, book_lock, trade_lock>>
  /\ UNCHANGED <<config, order_book_storage, trade_storage, trade_log, book_log, last_recent, last_metrics,
                 feedVars, supVars, mainVars, clockVars>>

\* detect_signals returns and analyze_symbol returns its result: the two guards, locals
\* of analyze_symbol that nothing dropped before, go out of scope
CallDetect(c) ==
  /\ call_pc[c] = "detect"
  /\ last_signal' =
       detect_signals(call[c].order_book, call[c].recent_trades, StrategyParams(config),
                      config.strong_signal_confidence, config.reversal_signal_confidence,
                      config.exhaustion_signal_confidence)
  /\ book_lock' = 0
  /\ trade_lock' = 0
  /\ call_pc' = [call_pc EXCEPT ![c] = "idle"]
  /\ call' = [call EXCEPT ![c] = NoCall]
  /\ UNCHANGED <<config, order_book_storage, trade_storage, trade_log, book_log, last_recent, last_metrics,
                 feedVars, supVars, mainVars, clockVars>>

(***************************************************************************)
(* The clocks of a session: the seconds without an inbound frame, the ping *)
(* interval and the sleep before the next attempt, for the feed session    *)
(* (websocket.rs, run_websocket_manager and connect_and_listen) and for    *)
(* the supervised session (main.rs, analyze_symbol_data).  What a frame    *)
(* does to the engine is left out here: a frame is an arrival.             *)
(***************************************************************************)
\* the longest silence the model counts
SilenceCap == 146

\* the longest gap between attempts the model counts
GapCap == 6

\* ping_interval of connect_and_listen
PingSecs == 25

\* the silence after which connect_and_listen gives the connection up
InactivitySecs == 120

\* the sleep of analyze_symbol_data before it reconnects
TaskReconnectSecs == 5

ListenKinds == {"feed", "supervised"}

\* a check that is content with any silence
NeverInactive(elapsed) == FALSE

\* last_message_time.elapsed() > Duration::from_secs(120)
Inactive(elapsed) == elapsed > InactivitySecs

\* a manager that reconnects at once after a connection that went silent
ReconnectAtOnce(cause) == IF cause = "inactivity" THEN 0 ELSE ReconnectDelaySecs

\* the sleep of run_websocket_manager after connect_and_listen has returned, whatever
\* it returned
ReconnectDelay(cause) == ReconnectDelaySecs

\* no session's clocks are watched
ClockIdle ==
  /\ listen_kind = "none"
  /\ listen_pc = "done"
  /\ silence = 0
  /\ ping_left = 0
  /\ nap_left = 0
  /\ since_attempt = 0
  /\ ended_by = "none"

\* a session about to make its first attempt
ClockInit ==
  /\ listen_kind \in ListenKinds
  /\ listen_pc = "connecting"
  /\ silence = 0
  /\ ping_left = 0
  /\ nap_left = 0
  /\ since_attempt = 0
  /\ ended_by = "none"

outsideClock == <<engineVars, feedVars, supVars, mainVars, lockVars>>

\* the attempt is over: into the sleep before the next one
Leave(cause, delay) ==
  /\ listen_pc' = "sleeping"
  /\ nap_left' = delay
  /\ since_attempt' = 0
  /\ ended_by' = cause
  /\ silence' = 0
  /\ ping_left' = 0
  /\ UNCHANGED <<listen_kind, outsideClock>>

\* connect_and_listen up to its loop: connected and subscribed, last_message_time is now
\* and the interval's first tick is due; or Err, back in the manager
ListenConnect ==
  /\ listen_kind = "feed"
  /\ listen_pc = "connecting"
  /\ \E outcome \in {"subscribed", "connect failed", "subscribe failed"} :
       IF outcome = "subscribed"
       THEN /\ listen_pc' = "streaming"
            /\ silence' = 0
            /\ ping_left' = 0
            /\ UNCHANGED <<listen_kind, nap_left, since_attempt, ended_by, outsideClock>>
       ELSE Leave(outcome, ReconnectDelay(outcome))

\* read.next() yields a message: last_message_time is reset, and the check after the
\* select finds no silence
ListenFrame ==
  /\ listen_kind = "feed"
  /\ listen_pc = "streaming"
  /\ silence' = 0
  /\ UNCHANGED <<listen_kind, listen_pc, ping_left, nap_left, since_attempt, ended_by,
                 outsideClock>>

\* ping_interval.tick(): the ping is written or the loop ends; after the select the
\* silence is checked
ListenPing ==
  /\ listen_kind = "feed"
  /\ listen_pc = "streaming"
  /\ ping_left = 0
  /\ \E sent \in BOOLEAN :
       IF ~sent THEN Leave("ping failed", ReconnectDelay("ping failed"))
       ELSE IF Inactive(silence) THEN Leave("inactivity", ReconnectDelay("inactivity"))
       ELSE /\ ping_left' = PingSecs
            /\ UNCHANGED <<listen_kind, listen_pc, silence, nap_left, since_attempt, ended_by,
                           outsideClock>>

\* read.next() yields Some(Err(e))
ListenReadError ==
  /\ listen_kind = "feed"
  /\ listen_pc = "streaming"
  /\ Leave("read error", ReconnectDelay("read error"))

\* read.next() yields None
ListenStreamEnd ==
  /\ listen_kind = "feed"
  /\ listen_pc = "streaming"
  /\ Leave("stream end", ReconnectDelay("stream end"))

\* the manager's sleep is over: the next attempt
ListenWake ==
  /\ listen_kind = "feed"
  /\ listen_pc = "sleeping"
  /\ nap_left = 0
  /\ listen_pc' = "connecting"
  /\ UNCHANGED <<listen_kind, silence, ping_left, nap_left, since_attempt, ended_by,
                 outsideClock>>

\* analyze_symbol_data: connect_async and the subscription; a failure of either leads
\* to a sleep of 5 s
SessionConnect ==
  /\ listen_kind = "supervised"
  /\ listen_pc = "connecting"
  /\ \E outcome \in {"subscribed", "connect failed", "subscribe failed"} :
       IF outcome = "subscribed"
       THEN /\ listen_pc' = "streaming"
            /\ silence' = 0
            /\ UNCHANGED <<listen_kind, ping_left, nap_left, since_attempt, ended_by,
                           outsideClock>>
       ELSE Leave(outcome, TaskReconnectSecs)

\* read.next() yields a frame that keeps the loop going
SessionFrame ==
  /\ listen_kind = "supervised"
  /\ listen_pc = "streaming"
  /\ silence' = 0
  /\ UNCHANGED <<listen_kind, listen_pc, ping_left, nap_left, since_attempt, ended_by,
                 outsideClock>>

\* a break out of the message loop: an error event of the venue, a pong that cannot be
\* written, a read error
SessionBreak ==
  /\ listen_kind = "supervised"
  /\ listen_pc = "streaming"
  /\ \E cause \in {"error event", "pong failed", "read error"} :
       Leave(cause, TaskReconnectSecs)

\* read.next() yields None: the select waits on shutdown_rx.recv() alone from now on
SessionStreamEnd ==
  /\ listen_kind = "supervised"
  /\ listen_pc = "streaming"
  /\ listen_pc' = "parked"
  /\ silence' = 0
  /\ UNCHANGED <<listen_kind, ping_left, nap_left, since_attempt, ended_by, outsideClock>>

\* the shutdown signal is received: in the select, or at the top of 'reconnect_loop
\* once the sleep is over
SessionShutdown ==
  /\ listen_kind = "supervised"
  /\ \/ listen_pc \in {"streaming", "parked"}
     \/ listen_pc = "sleeping" /\ nap_left = 0
  /\ listen_pc' = "done"
  /\ silence' = 0
  /\ UNCHANGED <<listen_kind, ping_left, nap_left, since_attempt, ended_by, outsideClock>>

\* the sleep is over and no shutdown signal is pending: the next attempt
SessionWake ==
  /\ listen_kind = "supervised"
  /\ listen_pc = "sleeping"
  /\ nap_left = 0
  /\ listen_pc' = "connecting"
  /\ UNCHANGED <<listen_kind, silence, ping_left, nap_left, since_attempt, ended_by,
                 outsideClock>>

\* one second passes; a tick of the ping interval that is due is taken first
ListenSecond ==
  /\ listen_pc \in {"streaming", "sleeping"}
  /\ ~(listen_kind = "feed" /\ listen_pc = "streaming" /\ ping_left = 0)
  /\ silence' = IF listen_pc = "streaming" THEN Min(silence + 1, SilenceCap) ELSE silence
  /\ ping_left' = Max(ping_left - 1, 0)
  /\ nap_left' = Max(nap_left - 1, 0)
  /\ since_attempt' = IF listen_pc = "sleeping" THEN Min(since_attempt + 1, GapCap)
                      ELSE since_attempt
  /\ UNCHANGED <<listen_kind, listen_pc, ended_by, outsideClock>>

(***************************************************************************)
(* Specifications                                                          *)
(***************************************************************************)
\* the engine as the other parts find it when they do not use it
EngineIdle == EngineInit /\ config.trade_storage_limit = 1

\* the supervisor with its tasks
Init == SupInit /\ FeedInit /\ EngineIdle /\ MainInit /\ LockInit /\ ClockIdle

Acquire == \E t \in Tasks : TaskAcquire(t)

InitTask == \E t \in Tasks : TaskInit(t)

Top == \E t \in Tasks : TaskTop(t)

Connect == \E t \in Tasks : TaskConnect(t)

Shutdown == \E t \in Tasks : TaskShutdown(t)

Data == \E t \in Tasks : TaskData(t)

SendComplete == \E t \in Tasks : TaskSendComplete(t)

Break == \E t \in Tasks : TaskBreak(t)

StreamEnd == \E t \in Tasks : TaskStreamEnd(t)

Wake == \E t \in Tasks : TaskWake(t)

Next ==
  \/ SupTick \/ SupStop \/ SupJoined \/ SupJoinTimeout \/ SupStart \/ SupRecv
  \/ SupExecuted
  \/ Acquire \/ InitTask \/ Top \/ Connect \/ Shutdown \/ Data \/ SendComplete
  \/ Break \/ StreamEnd \/ Wake

Spec == Init /\ [][Next]_vars

\* the engine driven directly
InitEngine == EngineInit /\ FeedInit /\ SupInit /\ MainInit /\ LockInit /\ ClockIdle

NextEngine ==
  \/ EngineUpdateOrderBook \/ EngineAddTrade \/ EngineAnalyze \/ EngineRecentTrades
  \/ EngineMetrics

SpecEngine == InitEngine /\ [][NextEngine]_vars

\* the feed session
InitFeed == EngineInit /\ FeedInit /\ SupInit /\ MainInit /\ LockInit /\ ClockIdle

NextFeed ==
  \/ WsConnect \/ WsFrame \/ WsSendComplete \/ WsSendClosed \/ WsSendTimeout
  \/ WsReadError \/ WsStreamEnd \/ WsInactive \/ WsPing \/ WsWake \/ WsRecv \/ WsRecvDrop
  \/ FeedTick

SpecFeed == InitFeed /\ [][NextFeed]_vars

InitMain == EngineInit /\ FeedInit /\ SupRunning /\ MainInit /\ LockInit /\ ClockIdle

NextMain ==
  \/ Top \/ Connect \/ MainFrame \/ MainSend \/ Break \/ StreamEnd \/ Wake
  \/ MainRecv \/ MainTick

SpecMain == InitMain /\ [][NextMain]_vars

\* the rule engine and the metrics on given stores
InitRules == RulesInit /\ FeedInit /\ SupInit /\ MainInit /\ LockInit /\ ClockIdle

NextRules == EngineAnalyze \/ EngineMetrics

SpecRules == InitRules /\ [][NextRules]_vars

InitLocks == EngineInit /\ FeedInit /\ SupInit /\ MainInit /\ LockInit /\ ClockIdle

Begin == \E c \in Callers : CallBegin(c)

LockBook == \E c \in Callers : AcquireBook(c)

LockTrades == \E c \in Callers : AcquireTrades(c)

Update == \E c \in Callers : CallUpdate(c)

Add == \E c \in Callers : CallAdd(c)

Read == \E c \in Callers : CallRead(c)

Detect == \E c \in Callers : CallDetect(c)

NextLocks == Begin \/ LockBook \/ LockTrades \/ Update \/ Add \/ Read \/ Detect

SpecLocks == InitLocks /\ [][NextLocks]_vars

\* the clocks of a session
InitListen == EngineIdle /\ FeedInit /\ SupInit /\ MainInit /\ LockInit /\ ClockInit

NextListen ==
  \/ ListenConnect \/ ListenFrame \/ ListenPing \/ ListenReadError \/ ListenStreamEnd
  \/ ListenWake \/ SessionConnect \/ SessionFrame \/ SessionBreak \/ SessionStreamEnd
  \/ SessionShutdown \/ SessionWake \/ ListenSecond

SpecListen == InitListen /\ [][NextListen]_vars

\* the scheduling of the callers: tokio's Mutex hands the lock to its waiters in the order
\* they came, so a waiter that can take it again and again does take it; a task that can
\* go on is polled.  Nothing makes a caller start a call.
LockFairness ==
  \A c \in Callers :
    /\ SF_vars(AcquireBook(c))
    /\ SF_vars(AcquireTrades(c))
    /\ WF_vars(CallUpdate(c) \/ CallAdd(c) \/ CallRead(c) \/ CallDetect(c))

FairLocks == SpecLocks /\ LockFairness

\* SupTick with the task numbers kept to 1..MaxFairTasks
FairTick ==
  /\ SupTick
  /\ next_task + Cardinality(Range(new_candidates') \ DOMAIN running_tasks) <= MaxFairTasks + 1

\* the supervisor's steps other than the receipt of a signal
SupSteps == FairTick \/ SupStop \/ SupJoined \/ SupJoinTimeout \/ SupStart \/ SupExecuted

\* the steps a task takes by itself once it is possible: past the configuration, past
\* the top of the loop, out of a connection attempt, out of the sleep
TaskSteps(t) == TaskInit(t) \/ TaskTop(t) \/ TaskConnect(t) \/ TaskWake(t)

\* The scheduling the runtime gives.  Weak fairness: a step that stays possible is
\* taken (the interval timer fires, the stop and start loops go on, a timeout or a join
\* returns, the call of the executor returns, a connection attempt ends, a sleep ends).
\* Strong fairness where other
\* steps can take the turn again and again: the select! of tokio picks among its ready
\* branches at random (SupRecv against the timer, TaskShutdown against read.next()),
\* the semaphore and the channel serve their waiters in order of arrival (TaskAcquire,
\* TaskSendComplete).  The venue owes nothing: no fairness for TaskData, TaskBreak and
\* TaskStreamEnd.
Fairness ==
  /\ WF_vars(SupSteps)
  /\ SF_vars(SupRecv)
  /\ \A t \in 1..MaxFairTasks :
       /\ WF_vars(TaskSteps(t))
       /\ SF_vars(TaskAcquire(t))
       /\ SF_vars(TaskShutdown(t))
       /\ SF_vars(TaskSendComplete(t))

NextFair ==
  \/ FairTick \/ SupStop \/ SupJoined \/ SupJoinTimeout \/ SupStart \/ SupRecv
  \/ SupExecuted
  \/ Acquire \/ InitTask \/ Top \/ Connect \/ Shutdown \/ Data \/ SendComplete
  \/ Break \/ StreamEnd \/ Wake

FairSpec == Init /\ [][NextFair]_vars /\ Fairness

(***************************************************************************)
(* Claims                                                                  *)
(***************************************************************************)
\* C2: in the feed session, no two admitted candidates of one (symbol, signal_type)
\* pair are less than 5 s apart, reconnects between them included: whenever the gate
\* admits a candidate, the last admission of its pair lies at least 5 s back.
C2_AdmittedFiveSecondsApart ==
  (gate_log # None /\ gate_log.admitted) => gate_log.gap >= 5

\* C2 witness: a pair admitted on one connection is admitted again on a later one,
\* 5 s after its last admission
C2_Witness ==
  /\ gate_log # None
  /\ gate_log.admitted
  /\ gate_log.gap = 5
  /\ gate_log.prev_conn >= 1
  /\ gate_log.prev_conn < gate_log.conn

\* C9: a candidate that comes 5 s or more after the last admitted candidate of its
\* pair is admitted, whatever happened to other pairs in between.
C9_AdmittedAfterWindow ==
  (gate_log # None /\ gate_log.gap >= 5) => gate_log.admitted

\* C9 witness: a pair admitted again 5 s after its last admission, on the same
\* connection, while the entry of another pair is in the gate's table
C9_Witness ==
  /\ gate_log # None
  /\ gate_log.admitted
  /\ gate_log.gap = 5
  /\ gate_log.prev_conn = gate_log.conn
  /\ \E k \in DOMAIN recent_signals : k # gate_log.key /\ recent_signals[k] > 0

\* C8: the steps of a disconnect and of a reconnect (the end of the listen loop, the
\* sleep, the next connection attempt) leave the engine's snapshot and trade history
\* as they were, so that later trades are added to the history from before.
C8_StoresSurviveReconnect ==
  [][(ws_pc \in {"sleeping", "connecting"} \/ ws_pc' = "sleeping")
       => (order_book_storage' = order_book_storage /\ trade_storage' = trade_storage)]_vars

\* C8 witness: streaming on a second connection with a snapshot and as many trades as
\* the limit allows in the stores
C8_Witness ==
  /\ ws_pc = "streaming"
  /\ connection_count >= 2
  /\ order_book_storage[FeedSymbol] # None
  /\ Len(trade_storage[FeedSymbol]) = config.trade_storage_limit

\* the last n elements of a sequence
LastN(q, n) == SubSeq(q, Len(q) - n + 1, Len(q))

\* C10: after N add_trade calls for a symbol under limit L >= 1 the store holds the
\* min(N, L) most recent trades of the symbol in arrival order; never more than L.
C10_TradeStoreKeepsNewest ==
  \A s \in Symbols :
    /\ Len(trade_storage[s]) <= config.trade_storage_limit
    /\ trade_storage[s] =
         LastN(trade_log[s], Min(Len(trade_log[s]), config.trade_storage_limit))

\* C10 witness: more trades added for a symbol than the limit allows, two of them kept
C10_Witness ==
  \E s \in Symbols :
    /\ Len(trade_log[s]) > config.trade_storage_limit
    /\ Len(trade_storage[s]) >= 2

\* the tick that has just run to its end: the supervisor is back at its select with the
\* record of what the screener returned
TickDone == sup_pc = "select" /\ screener_result # None

\* C1: when the screener fails on a watchlist tick, the running sessions after the
\* tick are those before it: none signalled to stop, none removed, none started.
C1_FailedTickKeepsSessions ==
  (TickDone /\ ~screener_result.ok) =>
    /\ running_tasks = running_before
    /\ next_task = next_before
    /\ \A symbol \in DOMAIN running_before : shutdown[running_before[symbol]] = "empty"

\* the tasks that hold a permit of the semaphore: past the acquire, not yet returned
PermitHolders ==
  {t \in Tasks : task_pc[t] \in {"init", "top", "connecting", "streaming", "sending",
                                 "parked", "sleeping"}}

\* the tasks that hold a venue connection or are attempting one
Connected == {t \in Tasks : task_pc[t] \in {"connecting", "streaming", "sending", "parked"}}

\* C6: at every moment at most max_concurrent_tasks sessions hold or attempt a venue
\* connection, sessions asked to stop that have not terminated included: every such
\* session holds one of the max_concurrent_tasks permits.
C6_SessionsWithinPermits ==
  /\ Connected \subseteq PermitHolders
  /\ Cardinality(PermitHolders) = max_concurrent_tasks - available_permits
  /\ available_permits >= 0
  /\ Cardinality(Connected) <= max_concurrent_tasks

\* C6 witness: every permit is held by a connected session, one of them asked to stop
\* and not terminated, and a further spawned task waits for a permit
C6_Witness ==
  /\ Cardinality(Connected) = max_concurrent_tasks
  /\ \E t \in Connected : shutdown[t] = "sent"
  /\ \E t \in Tasks : task_pc[t] = "acquire"

\* the list the tick works with after a successful screener call
Truncated == Take(screener_result.candidates, max_concurrent_tasks \div 2)

\* C7: after a tick on which the screener returned list C (cut to its first
\* max_concurrent_tasks / 2 entries) the running map has exactly the symbols of C:
\* running symbols outside C were signalled to stop (unless their task had returned
\* already) and removed, symbols of C that were not running got one new task each,
\* and the tasks of symbols in both were neither stopped nor replaced.
C7_TickReconciles ==
  (TickDone /\ screener_result.ok) =>
    /\ DOMAIN running_tasks = Range(Truncated)
    /\ \A symbol \in DOMAIN running_before \ Range(Truncated) :
         \/ shutdown[running_before[symbol]] # "empty"
         \/ task_pc[running_before[symbol]] = "done"
    /\ \A symbol \in Range(Truncated) \ DOMAIN running_before :
         /\ running_tasks[symbol] >= next_before
         /\ running_tasks[symbol] < next_task
         /\ task_symbol[running_tasks[symbol]] = symbol
    /\ next_task - next_before = Cardinality(Range(Truncated) \ DOMAIN running_before)
    /\ \A symbol \in Range(Truncated) \cap DOMAIN running_before :
         /\ running_tasks[symbol] = running_before[symbol]
         /\ shutdown[running_tasks[symbol]] = "empty"

\* C7 witness: a tick whose list was cut, that kept the session of a symbol running
\* while a session stopped on an earlier tick is still alive
C7_Witness ==
  /\ TickDone
  /\ screener_result.ok
  /\ Len(screener_result.candidates) > max_concurrent_tasks \div 2
  /\ \E symbol \in Range(Truncated) \cap DOMAIN running_before :
       task_pc[running_tasks[symbol]] = "streaming"
  /\ \E t \in Tasks : shutdown[t] = "sent" /\ task_pc[t] # "done"

\* C7 witness of the other two cases is the tick that replaces one symbol by another
C7_Swap ==
  /\ TickDone
  /\ screener_result.ok
  /\ DOMAIN running_before \ Range(Truncated) # {}
  /\ Range(Truncated) \ DOMAIN running_before # {}

\* C4: whenever a session's connection has ended and no stop has been requested (the
\* connection or the subscription failed, a read failed, the stream ended), the session
\* starts a new connection attempt, unless a stop is requested first.
C4_AlwaysReconnects ==
  \A t \in 1..MaxFairTasks :
    (task_pc[t] \in {"sleeping", "parked"} /\ shutdown[t] = "empty")
      ~> (task_pc[t] = "connecting" \/ shutdown[t] # "empty")

C3_SupervisedSignalsDeduplicated ==
  forward_log # None => forward_log.gap >= 5

\* C11: after any sequence of update_order_book calls the stored snapshot of each
\* symbol is the snapshot submitted last for that symbol, as a whole, and a symbol no
\* snapshot was submitted for has none: a call changes nothing for the other symbols.
C11_BookStoreKeepsLatest ==
  \A s \in Symbols :
    /\ order_book_storage[s] = book_log[s].last
    /\ get_order_book(order_book_storage, s) = book_log[s].last

\* C11 witness: a symbol's two-level snapshot has been replaced by one with fewer
\* levels while the other symbol keeps a snapshot of two levels a side
C11_Witness ==
  \E s, o \in Symbols :
    /\ s # o
    /\ book_log[s].count >= 2
    /\ order_book_storage[s] # None
    /\ Len(order_book_storage[s].asks) = 1
    /\ order_book_storage[o] # None
    /\ Len(order_book_storage[o].bids) = 2

\* C12: get_recent_trades(symbol, n) returns the last min(n, stored count) trades of
\* the symbol, the newest first, each next one the trade that arrived just before; for
\* a symbol without stored trades it returns the empty sequence.
C12_RecentTradesNewestFirst ==
  last_recent # None =>
    LET stored == trade_storage[last_recent.symbol]
        count == Min(last_recent.limit, Len(stored))
    IN  /\ Len(last_recent.result) = count
        /\ \A i \in 1..count : last_recent.result[i] = stored[Len(stored) - i + 1]
        /\ (stored = <<>> => last_recent.result = <<>>)

\* C12 witness: a call with a limit below the stored count, on two different stored
\* trades, has returned the newer one
C12_Witness ==
  /\ last_recent # None
  /\ last_recent.limit = 1
  /\ Len(trade_storage[last_recent.symbol]) = 2
  /\ trade_storage[last_recent.symbol][1] # trade_storage[last_recent.symbol][2]
  /\ last_recent.result = <<trade_storage[last_recent.symbol][2]>>

\* C12, the other cases reached: all stored trades returned in reverse, and the empty
\* result for a symbol without trades while the other symbol has some
C12_WholeAndEmpty ==
  /\ last_recent # None
  /\ last_recent.limit = 100
  /\ \/ Len(last_recent.result) = 2 /\ last_recent.result[1] # last_recent.result[2]
     \/ /\ last_recent.result = <<>>
        /\ \E o \in Symbols : trade_storage[o] # <<>>

\* C13: during analyze_symbol, detect_signals never runs while the book lock or the
\* trade lock is held by the call: both are released before signal detection starts.
C13_DetectionOutsideLocks ==
  \A c \in Callers : call_pc[c] = "detect" => (book_lock # c /\ trade_lock # c)

\* a caller holds the book lock and waits for the trade lock that another caller holds
C14_Witness ==
  \E c, d \in Callers :
    /\ c # d
    /\ call[c].op = "analyze_symbol"
    /\ call_pc[c] = "trade_lock"
    /\ book_lock = c
    /\ trade_lock = d
    /\ call[d].op = "add_trade"

\* C14: concurrent update_order_book, add_trade and analyze_symbol calls on one engine
\* never deadlock: whatever the interleaving, every call that was started returns.
C14_EveryCallReturns ==
  \A c \in Callers : (call_pc[c] # "idle") ~> (call_pc[c] = "idle")

\* analyze_symbol takes the book lock before the trade lock, and no call waits for the
\* book lock while it holds the trade lock
C14_BookBeforeTrades ==
  \A c \in Callers : call_pc[c] = "book_lock" => trade_lock # c

\* a level list whose strings all parse
WholeLevels(levels) == \A i \in 1..Len(levels) : levels[i][1].ok /\ levels[i][2].ok

\* the levels a list of parsing strings stands for
CarriedLevels(levels) ==
  [i \in 1..Len(levels) |-> OrderBookLevel(levels[i][1].val, levels[i][2].val)]

\* a books frame that carries a snapshot with two sides, every string a number
IsWholeBook(frame) ==
  /\ frame.kind = "data"
  /\ frame.channel = "books"
  /\ frame.data.ok
  /\ frame.data.items # <<>>
  /\ LET b == frame.data.items[1]
     IN  /\ b.bids # <<>> /\ b.asks # <<>>
         /\ WholeLevels(b.bids) /\ WholeLevels(b.asks)
         /\ b.ts.ok

\* the snapshot such a frame carries
CarriedBook(frame) ==
  LET b == frame.data.items[1]
  IN  OrderBookSnapshot(frame.inst_id, CarriedLevels(b.bids), CarriedLevels(b.asks), b.ts.val)

\* the trades a frame carries, in the order of its items
CarriedTrades(frame) ==
  IF frame.kind = "data" /\ frame.channel = "trade" /\ frame.data.ok
  THEN LET good == SelectSeq(frame.data.items,
                             LAMBDA t : t.price.ok /\ t.size.ok /\ t.ts.ok)
       IN  [i \in 1..Len(good) |->
              TradeData(frame.inst_id, good[i].price.val, good[i].size.val, good[i].side,
                        good[i].ts.val)]
  ELSE <<>>

\* the task has handled a frame in this step
Dispatch ==
  /\ dispatched' # None
  /\ \/ dispatched' # dispatched
     \/ order_book_storage' # order_book_storage
     \/ trade_storage' # trade_storage

\* C15: within one session the book and trade updates reach the engine in the order
\* their frames (and the items of a frame) arrived, and the analysis that follows an
\* update reads stores that hold it: after a frame the book store holds the frame's
\* snapshot, the trade store is the old one with the frame's trades appended in order
\* (cut to the limit), and the last analysis is the one of these stores.
C15_UpdatesInArrivalOrder ==
  [][Dispatch =>
       LET frame == dispatched'.frame
           arrived == CarriedTrades(frame)
           all == trade_storage[FeedSymbol] \o arrived
           observed == analyze_symbol(order_book_storage', trade_storage', config,
                                      task_symbol[1])
       IN  /\ IsWholeBook(frame) =>
                /\ order_book_storage'[frame.inst_id] = CarriedBook(frame)
                /\ dispatched'.signal = observed
           /\ trade_storage'[FeedSymbol] =
                LastN(all, Min(Len(all), config.trade_storage_limit))
           /\ arrived # <<>> => dispatched'.signal = observed]_vars

\* C15 witness: a frame of two trades has been handled after a snapshot; the store
\* holds the two in their order and the analysis after the second has run on them
C15_Witness ==
  /\ dispatched # None
  /\ Len(CarriedTrades(dispatched.frame)) = 2
  /\ trade_storage[FeedSymbol] = CarriedTrades(dispatched.frame)
  /\ trade_storage[FeedSymbol][1] # trade_storage[FeedSymbol][2]
  /\ order_book_storage[FeedSymbol] # None
  /\ dispatched.signal # None
  /\ dispatched.signal = analyze_symbol(order_book_storage, trade_storage, config, FeedSymbol)
  /\ dispatched.signal.reason # "No order book data"

\* the same in the feed session: the candidate the gate decides on is the analysis of
\* the stores as the frame left them
C15_FeedCandidateIsFresh ==
  [][gate_log' # gate_log =>
       gate_log'.key = signal_key(analyze_symbol(order_book_storage', trade_storage', config,
                                                 FeedSymbol))]_vars

\* C16: a send that finds the outbound channel full is given up after 5 s: the signal
\* is dropped and the session goes on with the next frame, so no session stays in a
\* send for more than 5 s.
C16_SendGivenUpAfterTimeout ==
  task_pc[1] = "sending" => send_wait <= SendTimeoutSecs

\* the feed session of websocket.rs, whose send has the timeout: a send that ends
\* with the channel still full leaves the session streaming, the signal dropped
C16_FeedSendTimesOut ==
  [][(ws_pc = "sending" /\ ws_pc' # "sending" /\ ws_channel' = ws_channel /\ rx_open') =>
       (send_left = 0 /\ ws_pc' = "streaming" /\ pending_signal' = None)]_vars

\* C17: a session that tries to emit a signal into a closed outbound channel (the
\* receiver was dropped) terminates: once the gate has admitted a signal with the
\* receiver gone, the session is no longer streaming.
C17_ClosedChannelEndsSession ==
  (gate_log # None /\ gate_log.admitted /\ ~gate_log.open) => ws_pc # "streaming"

\* a text frame that does not parse: no BitgetWsResponse at all, or one whose data is
\* no list of book or trade items
Unparseable(frame) == frame.kind = "text" \/ (frame.kind = "data" /\ ~frame.data.ok)

HasBadString(frame) ==
  /\ frame.kind = "data"
  /\ frame.channel = "books"
  /\ frame.data.ok
  /\ frame.data.items # <<>>
  /\ LET b == frame.data.items[1]
     IN  ~WholeLevels(b.bids) \/ ~WholeLevels(b.asks) \/ ~b.ts.ok

\* C19: a book update with a price, quantity or timestamp string that is no number is
\* dropped whole: the step that handles its frame leaves the book store as it was.
C19_BadBookUpdateDropped ==
  [][(Dispatch /\ HasBadString(dispatched'.frame)) =>
       order_book_storage' = order_book_storage]_vars

\* the feed session of websocket.rs parses strictly: the snapshot it stores is one a
\* whole frame carries
C19_FeedStoresWholeBooks ==
  \A s \in Symbols :
    order_book_storage[s] # None =>
      \E frame \in FeedFrames :
        /\ frame.kind = "data" /\ frame.channel = "books" /\ frame.data.ok
        /\ WholeLevels(frame.data.items[1].bids) /\ WholeLevels(frame.data.items[1].asks)
        /\ frame.data.items[1].ts.ok
        /\ order_book_storage[s] = CarriedBook(frame)

\* buys minus sells, each trade counted with price * quantity, over a whole sequence
RECURSIVE SignedNotional(_)
SignedNotional(trades) ==
  IF trades = <<>> THEN 0
  ELSE (IF Head(trades).side = "buy" THEN Head(trades).price * Head(trades).quantity
        ELSE IF Head(trades).side = "sell" THEN 0 - Head(trades).price * Head(trades).quantity
        ELSE 0)
       + SignedNotional(Tail(trades))

\* C20: the cumulative_delta of the metrics is the signed notional sum (buys minus
\* sells) over all the trades handed to calculate_ofi_metrics, those older than the
\* look-back window included.
C20_CumulativeDeltaOverAllTrades ==
  last_metrics # None =>
    last_metrics.metrics.cumulative_delta = SignedNotional(last_metrics.trades)

\* what the code computes: the two deltas are sums over the same filtered trades
C20_CumulativeDeltaIsDelta ==
  last_metrics # None => last_metrics.metrics.cumulative_delta = last_metrics.metrics.delta

\* the signed notional of the trades at or after a cutoff
RECURSIVE NotionalSince(_, _)
NotionalSince(trades, cutoff) ==
  IF trades = <<>> THEN 0
  ELSE (IF Head(trades).timestamp >= cutoff THEN SignedNotional(<<Head(trades)>>) ELSE 0)
       + NotionalSince(Tail(trades), cutoff)

\* C21: the delta of the metrics is the notional of the buys minus that of the sells
\* over exactly the supplied trades with timestamp >= max(0, snapshot.timestamp -
\* lookback); older trades do not count, and a look-back longer than the snapshot's
\* timestamp gives the cutoff 0.
C21_DeltaOverWindow ==
  last_metrics # None =>
    LET now == order_book_storage[last_metrics.metrics.symbol].timestamp
        cutoff == Max(0, now - config.lookback_period_ms)
    IN  last_metrics.metrics.delta = NotionalSince(last_metrics.trades, cutoff)

\* C21 witness: metrics of a snapshot earlier than the look-back is long, over trades
\* that all count
C21_Witness ==
  /\ last_metrics # None
  /\ last_metrics.metrics.timestamp < config.lookback_period_ms
  /\ Len(last_metrics.trades) = 2
  /\ last_metrics.metrics.delta = SignedNotional(last_metrics.trades)
  /\ last_metrics.metrics.delta # 0

\* C21, the other case: a trade older than the cutoff is left out, one at the cutoff
\* counts
C21_CutoffReached ==
  /\ last_metrics # None
  /\ Len(last_metrics.trades) = 2
  /\ last_metrics.metrics.delta = 500
  /\ SignedNotional(last_metrics.trades) = 0 - 1500

\* the conditions of the rules on the stores of a symbol, each taken by itself
RuleFacts(symbol) ==
  LET order_book == order_book_storage[symbol]
      trades == get_recent_trades(trade_storage, symbol, 100)
      params == StrategyParams(config)
      cutoff == Max(0, order_book.timestamp - params.lookback_period_ms)
      delta == NotionalSince(trades, cutoff)
      threshold == params.delta_threshold * params.market_condition_multiplier
      imbalance == params.imbalance_threshold * params.market_condition_multiplier
      big(levels, top) ==
        Cardinality({i \in 1..Min(5, Len(levels)) :
                       levels[i].price * levels[i].quantity >= imbalance * top})
      buy_stacked ==
        /\ Len(order_book.bids) >= 5 /\ order_book.asks # <<>>
        /\ order_book.asks[1].price * order_book.asks[1].quantity > 0
        /\ big(order_book.bids, order_book.asks[1].price * order_book.asks[1].quantity) >= 3
      sell_stacked ==
        /\ Len(order_book.asks) >= 5 /\ order_book.bids # <<>>
        /\ order_book.bids[1].price * order_book.bids[1].quantity > 0
        /\ big(order_book.asks, order_book.bids[1].price * order_book.bids[1].quantity) >= 3
      prev == IF Len(order_book.bids) >= 2 THEN order_book.bids[2].price
              ELSE order_book.bids[1].price
      buy_absorption == trades # <<>> /\ delta < 0 - threshold /\ order_book.bids[1].price >= prev
      sell_absorption == trades # <<>> /\ delta > threshold /\ order_book.bids[1].price <= prev
  IN  [rule1 |-> buy_stacked /\ delta > threshold,
       rule2 |-> sell_stacked /\ delta < 0 - threshold,
       buy_absorption |-> buy_absorption,
       sell_absorption |-> sell_absorption /\ ~buy_absorption,
       selling |-> delta < 0 - threshold]

\* an analysis of a symbol with a snapshot of two sides has just returned
Analysed ==
  /\ last_signal # None
  /\ order_book_storage[last_signal.symbol] # None
  /\ order_book_storage[last_signal.symbol].bids # <<>>
  /\ order_book_storage[last_signal.symbol].asks # <<>>

\* C22: the rules are tried in a fixed order and the first match is returned:
\* StrongBuy, StrongSell, the absorption verdict, the exhaustion Sell, else NoSignal.
\* When rule 1 or 2 holds together with the absorption condition, the result is
\* StrongBuy / StrongSell with the strong confidence, never the absorption signal.
C22_FirstMatchWins ==
  Analysed =>
    LET f == RuleFacts(last_signal.symbol)
        type == last_signal.signal_type
        confidence == last_signal.confidence
    IN  /\ f.rule1 => (type = "StrongBuy" /\ confidence = config.strong_signal_confidence)
        /\ (~f.rule1 /\ f.rule2) =>
             (type = "StrongSell" /\ confidence = config.strong_signal_confidence)
        /\ (~f.rule1 /\ ~f.rule2 /\ f.buy_absorption) =>
             (type = "Buy" /\ confidence = config.reversal_signal_confidence)
        /\ (~f.rule1 /\ ~f.rule2 /\ f.sell_absorption) =>
             (type = "Sell" /\ confidence = config.reversal_signal_confidence)
        /\ (~f.rule1 /\ ~f.rule2 /\ ~f.buy_absorption /\ ~f.sell_absorption) =>
             (type \in {"Sell", "NoSignal"}
              /\ (type = "Sell" => f.selling /\ confidence = config.exhaustion_signal_confidence)
              /\ (type = "NoSignal" => confidence = 0))

\* C22 witness: rule 2 and the absorption condition hold together and the result is
\* StrongSell
C22_Witness ==
  /\ Analysed
  /\ RuleFacts(last_signal.symbol).rule2
  /\ RuleFacts(last_signal.symbol).buy_absorption
  /\ last_signal.signal_type = "StrongSell"

\* C22, rule 1 with the absorption condition: the result is StrongBuy
C22_StrongBuyOverAbsorption ==
  /\ Analysed
  /\ RuleFacts(last_signal.symbol).rule1
  /\ RuleFacts(last_signal.symbol).sell_absorption
  /\ last_signal.signal_type = "StrongBuy"

\* scenario S4: delta threshold 1000, a look-back window that holds only the trailing
\* sells (window delta -3000) and a full list that nets +2000
ScenarioS4 ==
  /\ Analysed
  /\ config.delta_threshold = 1000
  /\ LET symbol == last_signal.symbol
         trades == get_recent_trades(trade_storage, symbol, 100)
         cutoff == Max(0, order_book_storage[symbol].timestamp - config.lookback_period_ms)
     IN  /\ NotionalSince(trades, cutoff) = 0 - 3000
         /\ SignedNotional(trades) = 2000

\* C23: in scenario S4 the rule engine returns Sell with the exhaustion confidence
C23_S4ReturnsExhaustionSell ==
  ScenarioS4 => /\ last_signal.signal_type = "Sell"
                /\ last_signal.confidence = config.exhaustion_signal_confidence

\* C23, what the code does: no analysis ever returns the exhaustion signal, whatever
\* the full list nets
C23_ExhaustionNeverReturned ==
  Analysed => last_signal.confidence # config.exhaustion_signal_confidence

\* C23, a scenario S4 state in which rules 1 to 3 do not match is reached
C23_S4NoOtherRule ==
  /\ ScenarioS4
  /\ LET f == RuleFacts(last_signal.symbol)
     IN  ~f.rule1 /\ ~f.rule2 /\ ~f.buy_absorption /\ ~f.sell_absorption
  /\ last_signal.signal_type = "NoSignal"

\* the reasons the rule engine gives with its results
RuleEngineReasons ==
  {"Stacked buy imbalances", "Stacked sell imbalances", "Potential exhaustion detected",
   "No significant signal detected", "Buy absorption detected", "Sell absorption detected"}

\* C24: an analysis of a symbol whose stored snapshot has no bids or no asks returns
\* NoSignal with price 0 and the empty-book reason, whatever trades are stored, and the
\* result does not come from the rule engine.
C24_EmptyBookNoSignal ==
  (/\ last_signal # None
   /\ order_book_storage[last_signal.symbol] # None
   /\ \/ order_book_storage[last_signal.symbol].bids = <<>>
      \/ order_book_storage[last_signal.symbol].asks = <<>>)
  => /\ last_signal.signal_type = "NoSignal"
     /\ last_signal.price = 0
     /\ last_signal.reason = "Order book is empty"
     /\ last_signal.reason \notin RuleEngineReasons
     /\ last_signal.confidence = 0

\* C24 witness: a one-sided snapshot with a window of sells that would match a rule has
\* been analysed
C24_Witness ==
  /\ last_signal # None
  /\ order_book_storage[last_signal.symbol] # None
  /\ order_book_storage[last_signal.symbol].bids = <<>>
  /\ order_book_storage[last_signal.symbol].asks # <<>>
  /\ trade_storage[last_signal.symbol] # <<>>
  /\ SignedNotional(trade_storage[last_signal.symbol]) < 0 - config.delta_threshold
  /\ last_signal.reason = "Order book is empty"

\* the places of the supervisor's loop
LoopPlaces == {"select", "stopping", "joining", "executing"}

\* the last tick's call of the watchlist producer failed
ProducerFailed == screener_result # None /\ ~screener_result.ok

\* C25: a failure of the watchlist producer or of the signal executor never ends the
\* supervisor's loop: the supervisor stays in its loop, and from the tick whose producer
\* call failed and from every executor call, whatever it returns, it comes back to its
\* select, where the timer branch is ready and the signal branch is ready for a signal
\* in the channel.
C25_FailuresKeepLoop ==
  /\ [](sup_pc \in LoopPlaces)
  /\ [](sup_pc = "select" =>
          /\ ENABLED FairTick
          /\ signal_channel # <<>> => ENABLED SupRecv)
  /\ (sup_pc = "executing") ~> (sup_pc = "select")
  /\ (sup_pc \in {"stopping", "joining"} /\ ProducerFailed) ~> (sup_pc = "select")

\* C25 witness: after a tick whose producer call failed, the supervisor has received a
\* signal and is handing it to the executor
C25_Witness ==
  /\ ProducerFailed
  /\ sup_pc = "executing"

\* C25, the other order: the supervisor handles a tick whose producer call failed after it
\* has come back from the executor
C25_TickAfterExecutor ==
  /\ ProducerFailed
  /\ sup_pc = "stopping"
  /\ signal_channel = <<>>
  /\ \E t \in Tasks : task_pc[t] = "sending"

\* C26: the executor is called off the supervisor's loop: while a call of the executor is
\* in progress the supervisor can handle a tick and can receive a further signal.
C26_ExecutorOffLoop ==
  sup_pc = "executing" =>
    /\ ENABLED SupTick
    /\ signal_channel # <<>> => ENABLED SupRecv

\* C26, what the code does: while call_python_executor runs, neither branch of the select
\* can be taken
C26_ExecutorInLoop ==
  sup_pc = "executing" => ~(ENABLED SupTick) /\ ~(ENABLED SupRecv)

\* C26, the call in progress with a further signal in the channel and a session waiting
\* to send the next one
C26_SignalsWaitForExecutor ==
  /\ sup_pc = "executing"
  /\ signal_channel # <<>>
  /\ \E t \in Tasks : task_pc[t] = "sending"

\* C27: a streaming session that has received no inbound frame for 120 s leaves Streaming
\* for the reconnect cycle (at the latest with the next tick of its ping interval): it is
\* never attached to a connection that has been silent for longer.
C27_SilentSessionLeaves ==
  listen_pc = "streaming" => silence <= InactivitySecs + PingSecs

\* C27, the feed session of websocket.rs: a connection silent for more than 120 s is
\* left at the next tick of the ping interval
C27_FeedLeavesSilentConnection ==
  (listen_kind = "feed" /\ listen_pc = "streaming") => silence <= InactivitySecs + PingSecs

\* C27, the feed session has left a connection because of its silence
C27_FeedInactivityReached ==
  /\ listen_kind = "feed"
  /\ listen_pc = "sleeping"
  /\ ended_by = "inactivity"

\* C27, the supervised session of main.rs is streaming on a connection that has been
\* silent for longer than 120 s and a ping interval
C27_SupervisedStaysAttached ==
  /\ listen_kind = "supervised"
  /\ listen_pc = "streaming"
  /\ silence > InactivitySecs + PingSecs

\* C28: an error frame of the venue is logged and the session goes on streaming on the
\* same connection: the step that handles it changes nothing in the engine, runs no
\* analysis, and does not take the session out of Streaming.
C28_ErrorFrameKeepsStreaming ==
  [][(Dispatch /\ dispatched'.frame.kind = "error") =>
       /\ task_pc'[1] = "streaming"
       /\ dispatched'.signal = None
       /\ UNCHANGED <<engineVars, main_queue, signal_channel>>]_vars

\* C28, the supervised session after an error frame: the engine as it was, no analysis,
\* and the session in the sleep before its next connection attempt
C28_SupervisedReconnects ==
  /\ dispatched # None
  /\ dispatched.frame.kind = "error"
  /\ dispatched.signal = None
  /\ task_pc[1] = "sleeping"
  /\ order_book_storage[FeedSymbol] # None

\* C28, what the supervised session keeps of the claim: an error frame changes nothing in
\* the engine and runs no analysis
C28_ErrorFrameLeavesEngine ==
  [][(Dispatch /\ dispatched'.frame.kind = "error") =>
       /\ dispatched'.signal = None
       /\ UNCHANGED <<engineVars, main_queue, signal_channel>>]_vars

\* C28, the feed session: handle_message answers an error frame without touching the
\* stores and without an analysis (and WsFrame leaves the session streaming)
C28_FeedErrorFrameIgnored ==
  LET h == HandleFrame(PlainFrame("error"), order_book_storage, trade_storage, config,
                       FeedSymbol)
  IN  /\ h.books = order_book_storage
      /\ h.trades = trade_storage
      /\ ~h.analysed

\* the supervisor waits for a task that has not finished
JoinPending == sup_pc = "joining" /\ task_pc[join_task] # "done"

\* the tick is handled: nothing is left to stop and every candidate has a task
TickHandled ==
  /\ sup_pc = "select"
  /\ symbols_to_stop = {}
  /\ Range(new_candidates) \subseteq DOMAIN running_tasks

C30_BackoffBeforeReconnect ==
  (listen_pc = "connecting" /\ ended_by # "none") => since_attempt >= 5

\* C30 witness: the feed session starts its next attempt 5 s after it left a connection
\* that had gone silent
C30_Witness ==
  /\ listen_kind = "feed"
  /\ listen_pc = "connecting"
  /\ ended_by = "inactivity"
  /\ since_attempt = 5

\* C30, the supervised session starts its next attempt 5 s after a failed subscription
C30_SupervisedBackoff ==
  /\ listen_kind = "supervised"
  /\ listen_pc = "connecting"
  /\ ended_by = "subscribe failed"
  /\ since_attempt = 5

(***************************************************************************)
(* The price of a signal                                                   *)
(***************************************************************************)
\* twice the price of the signal just returned; prices are whole numbers here and the
\* halving of an odd sum drops the half the f64 of the source keeps, which is put back
TwicePrice ==
  LET order_book == order_book_storage[last_signal.symbol]
      sum == order_book.bids[1].price + order_book.asks[1].price
  IN  IF sum % 2 = 1 THEN 2 * last_signal.price + 1 ELSE 2 * last_signal.price

\* an analysis of a snapshot whose best bid and best ask are both positive
AnalysedPositive ==
  /\ Analysed
  /\ order_book_storage[last_signal.symbol].bids[1].price > 0
  /\ order_book_storage[last_signal.symbol].asks[1].price > 0

\* C32: whenever best bid and best ask are both positive, the price of the rule
\* engine's signal is the mid price and lies strictly between them:
\* best_bid < price < best_ask
C32_PriceStrictlyBetween ==
  AnalysedPositive =>
    LET order_book == order_book_storage[last_signal.symbol]
    IN  /\ TwicePrice = order_book.bids[1].price + order_book.asks[1].price
        /\ 2 * order_book.bids[1].price < TwicePrice
        /\ TwicePrice < 2 * order_book.asks[1].price

\* C32, what the code does: the price is the mid price, between the two best prices
\* in whichever order they come, and strictly between them when the best bid is below
\* the best ask
C32_PriceIsMid ==
  AnalysedPositive =>
    LET best_bid == order_book_storage[last_signal.symbol].bids[1].price
        best_ask == order_book_storage[last_signal.symbol].asks[1].price
    IN  /\ TwicePrice = best_bid + best_ask
        /\ 2 * Min(best_bid, best_ask) <= TwicePrice
        /\ TwicePrice <= 2 * Max(best_bid, best_ask)
        /\ best_bid < best_ask => (2 * best_bid < TwicePrice /\ TwicePrice < 2 * best_ask)

\* C32, the crossed book: best bid 102 above best ask 100, and the price 101 below the
\* best bid
C32_CrossedBookReached ==
  /\ AnalysedPositive
  /\ order_book_storage[last_signal.symbol].bids[1].price = 102
  /\ order_book_storage[last_signal.symbol].asks[1].price = 100
  /\ last_signal.price = 101

(***************************************************************************)
(* The stacked detectors on a book and on its mirror image                 *)
(***************************************************************************)
\* the snapshot with bids and asks swapped
Mirror(order_book) ==
  OrderBookSnapshot(order_book.symbol, order_book.asks, order_book.bids, order_book.timestamp)

\* the threshold detect_signals hands to the stacked detectors
StackedThreshold ==
  StrategyParams(config).imbalance_threshold * StrategyParams(config).market_condition_multiplier

\* the snapshots the engine holds
StoredBooks == {order_book_storage[s] : s \in {t \in Symbols : order_book_storage[t] # None}}

\* C33: the stacked detector is symmetric: the buy-stacked verdict on the mirrored book
\* equals the sell-stacked verdict on the book itself, also with fewer than 5 levels on
\* the examined side, with an empty opposite side and with an opposite top level of
\* zero notional
C33_StackedSymmetric ==
  \A order_book \in StoredBooks :
    detect_stacked_imbalances(Mirror(order_book), StackedThreshold)[1]
      = detect_stacked_imbalances(order_book, StackedThreshold)[2]

\* C33 witness: an analysis has returned StrongSell on stacked asks, and the mirrored
\* book has stacked bids
C33_Witness ==
  /\ Analysed
  /\ last_signal.signal_type = "StrongSell"
  /\ detect_stacked_imbalances(order_book_storage[last_signal.symbol], StackedThreshold)[2]
  /\ detect_stacked_imbalances(Mirror(order_book_storage[last_signal.symbol]),
                               StackedThreshold)[1]

\* C33, the edge cases: five asks against a top bid of zero notional, five asks against
\* no bid, and one ask only, each analysed
C33_EdgeCasesReached ==
  /\ last_signal # None
  /\ LET order_book == order_book_storage[last_signal.symbol]
     IN  /\ order_book # None
         /\ \/ Len(order_book.asks) = 5 /\ order_book.bids # <<>>
               /\ order_book.bids[1].quantity = 0
            \/ Len(order_book.asks) = 1 /\ order_book.bids = <<>>
            \/ Len(order_book.asks) = 1 /\ Len(order_book.bids) = 5
         /\ ~detect_stacked_imbalances(order_book, StackedThreshold)[2]

(***************************************************************************)
(* The absorption detector                                                 *)
(***************************************************************************)
\* the verdict of the absorption detector on the inputs of the last metrics call: the
\* snapshot of its symbol, its trades view, its metrics and the strategy parameters
AbsorptionVerdict ==
  detect_absorption(order_book_storage[last_metrics.metrics.symbol], last_metrics.trades,
                    last_metrics.metrics, StrategyParams(config))

\* C34: the absorption detector returns NoSignal when the bids or the trades view are
\* empty; otherwise Buy exactly when metrics.delta < -delta_threshold and
\* bids[0].price >= prev_best_bid, else Sell exactly when metrics.delta >
\* delta_threshold and bids[0].price <= prev_best_bid, else NoSignal, where
\* prev_best_bid is bids[1].price with two bid levels or more and bids[0].price
\* otherwise
C34_AbsorptionVerdict ==
  last_metrics # None =>
    LET bids == order_book_storage[last_metrics.metrics.symbol].bids
        delta == last_metrics.metrics.delta
        threshold == StrategyParams(config).delta_threshold
        prev == IF Len(bids) >= 2 THEN bids[2].price ELSE bids[1].price
        buy == delta < 0 - threshold /\ bids[1].price >= prev
        sell == delta > threshold /\ bids[1].price <= prev
        verdict == AbsorptionVerdict[3]
    IN  /\ AbsorptionVerdict[1] = (verdict # "NoSignal")
        /\ (bids = <<>> \/ last_metrics.trades = <<>>) => verdict = "NoSignal"
        /\ (bids # <<>> /\ last_metrics.trades # <<>>) =>
             /\ verdict = "Buy" <=> buy
             /\ verdict = "Sell" <=> (~buy /\ sell)
             /\ verdict = "NoSignal" <=> (~buy /\ ~sell)

\* C34 witness: two equal best bids, a selling delta beyond the threshold, and Buy
C34_Witness ==
  /\ last_metrics # None
  /\ Len(order_book_storage[last_metrics.metrics.symbol].bids) = 2
  /\ order_book_storage[last_metrics.metrics.symbol].bids[1].price
       = order_book_storage[last_metrics.metrics.symbol].bids[2].price
  /\ last_metrics.metrics.delta < 0 - StrategyParams(config).delta_threshold
  /\ AbsorptionVerdict[3] = "Buy"

\* C34, the other verdicts: Sell on a buying delta with one bid level, and NoSignal on
\* a selling delta beyond the threshold with a best bid below the second bid
C34_SellReached ==
  /\ last_metrics # None
  /\ Len(order_book_storage[last_metrics.metrics.symbol].bids) = 1
  /\ last_metrics.metrics.delta > StrategyParams(config).delta_threshold
  /\ AbsorptionVerdict[3] = "Sell"

C34_NoSignalReached ==
  /\ last_metrics # None
  /\ Len(order_book_storage[last_metrics.metrics.symbol].bids) = 2
  /\ order_book_storage[last_metrics.metrics.symbol].bids[1].price
       < order_book_storage[last_metrics.metrics.symbol].bids[2].price
  /\ last_metrics.metrics.delta < 0 - StrategyParams(config).delta_threshold
  /\ AbsorptionVerdict[3] = "NoSignal"

(***************************************************************************)
(* The exhaustion rule behind the absorption rule                          *)
(***************************************************************************)
\* an analysis of a snapshot whose bids are in descending price order (equal prices
\* allowed), with a delta over the window below minus the effective threshold
SellingOnDescendingBids ==
  /\ Analysed
  /\ LET bids == order_book_storage[last_signal.symbol].bids
     IN  \A i \in 1..(Len(bids) - 1) : bids[i].price >= bids[i + 1].price
  /\ StrategyParams(config).delta_threshold
       * StrategyParams(config).market_condition_multiplier >= 0
  /\ RuleFacts(last_signal.symbol).selling

\* C38: for every snapshot with bids in descending price order and every non-negative
\* effective delta threshold the rule engine never returns the exhaustion Sell:
\* whenever delta < -delta' holds, the buy-absorption rule matches first and the
\* result is Buy
C38_SellingDeltaGivesBuy ==
  /\ Analysed => last_signal.confidence # config.exhaustion_signal_confidence
  /\ SellingOnDescendingBids =>
       /\ last_signal.signal_type = "Buy"
       /\ last_signal.confidence = config.reversal_signal_confidence

\* C38 amended: with bids in descending price order and delta < -delta', the result is
\* StrongSell when the asks are stacked (rule 2 matches first) and otherwise the Buy
\* of the buy-absorption rule; the exhaustion Sell is never returned
C38_SellingDeltaGivesStrongSellOrBuy ==
  /\ Analysed => last_signal.confidence # config.exhaustion_signal_confidence
  /\ SellingOnDescendingBids =>
       IF detect_stacked_imbalances(order_book_storage[last_signal.symbol],
                                    StackedThreshold)[2]
       THEN /\ last_signal.signal_type = "StrongSell"
            /\ last_signal.confidence = config.strong_signal_confidence
       ELSE /\ last_signal.signal_type = "Buy"
            /\ last_signal.confidence = config.reversal_signal_confidence

\* C38 witness: five descending bids, a selling delta beyond the threshold, no stacked
\* asks, and the Buy of the absorption rule
C38_Witness ==
  /\ SellingOnDescendingBids
  /\ Len(order_book_storage[last_signal.symbol].bids) = 5
  /\ order_book_storage[last_signal.symbol].bids[1].price
       > order_book_storage[last_signal.symbol].bids[2].price
  /\ last_signal.signal_type = "Buy"
  /\ last_signal.confidence = config.reversal_signal_confidence

\* C38, the other case: descending bids, a selling delta beyond the threshold, stacked
\* asks, and StrongSell
C38_StrongSellReached ==
  /\ SellingOnDescendingBids
  /\ last_signal.signal_type = "StrongSell"

(***************************************************************************)
(* The stores across an analysis                                           *)
(***************************************************************************)
\* C39: analyze(symbol) never modifies the engine's stores: the book store and the
\* trade store are the same before and after every analyze call, whatever signal it
\* returns, for known and unknown symbols alike
C39_AnalyzeKeepsStores ==
  [][(EngineAnalyze \/ last_signal' # last_signal)
       => UNCHANGED <<order_book_storage, trade_storage>>]_vars

\* C39 witness: an analysis has returned a signal of the rule engine for a symbol
\* with a snapshot and trades in the stores
C39_Witness ==
  /\ last_signal # None
  /\ last_signal.reason \in RuleEngineReasons
  /\ order_book_storage[last_signal.symbol] # None
  /\ trade_storage[last_signal.symbol] # <<>>

\* C39, the unknown symbol: an analysis has answered that there is no order book
\* while the stores hold a snapshot and trades of the other symbol
C39_UnknownSymbolReached ==
  /\ last_signal # None
  /\ last_signal.reason = "No order book data"
  /\ \E s \in Symbols : order_book_storage[s] # None /\ trade_storage[s] # <<>>

(***************************************************************************)
(* What reaches the signal channel                                         *)
(***************************************************************************)
\* the signals a session has lined up or sent and main has not yet taken, of either
\* implementation
SignalsInFlight ==
  Range(signal_channel) \cup Range(main_queue) \cup Range(ws_channel)
    \cup (IF pending_signal = None THEN {} ELSE {pending_signal})

\* C31: no signal whose signal_type is NoSignal is ever placed on the outbound signal
\* channel or forwarded to the executor, whatever frames a session receives
C31_NoSignalNeverSent ==
  /\ \A signal \in SignalsInFlight : signal.signal_type # "NoSignal"
  /\ forward_log # None => forward_log.key[2] # "NoSignal"

\* C31 witness: the analysis of the last frame returned NoSignal and lined up nothing,
\* while a signal of an earlier frame is in the channel
C31_Witness ==
  /\ dispatched # None
  /\ dispatched.signal # None
  /\ dispatched.signal.signal_type = "NoSignal"
  /\ main_queue = <<>>
  /\ signal_channel # <<>>

\* C31, the feed session (handle_message): a frame was analysed to NoSignal and the
\* channel holds the signal of an earlier frame only
C31_FeedWitness ==
  /\ ws_pc = "streaming"
  /\ Len(ws_channel) = 1
  /\ analyze_symbol(order_book_storage, trade_storage, config, FeedSymbol).signal_type
       = "NoSignal"

(***************************************************************************)
(* The gate's entry of a signal whose send is given up                     *)
(***************************************************************************)
\* the step in which the timeout around the pending send has fired: the session is
\* back at its frames, the receiver is there and the channel got nothing
SendTimedOut ==
  /\ ws_pc = "sending"
  /\ ws_pc' = "streaming"
  /\ rx_open /\ rx_open'
  /\ ws_channel' = ws_channel

\* C35: the gate records the (symbol, signal_type) entry at admission, before the
\* send: when the admitted signal is then dropped because the send timed out,
\* candidates of the same pair stay suppressed for the following 5 s although no
\* signal of that pair was delivered; here, a candidate of the pair that comes right
\* after the drop is refused
C35_DroppedSignalStillSuppresses ==
  [][SendTimedOut =>
       /\ signal_key(pending_signal) \in DOMAIN recent_signals'
       /\ ~Gate(recent_signals', signal_key(pending_signal)).should_send]_vars

\* C35 amended: the entry is in the gate's table from the admission on, all through
\* the pending send, and the timeout does not take it out; but the session reads no
\* frame while the send is pending and the send's timeout is as long as the gate's
\* window, so when the signal is dropped its entry is as old as the window and the
\* next candidate of the pair is admitted
C35_DroppedSignalEntryExpired ==
  /\ [](ws_pc = "sending" =>
          /\ signal_key(pending_signal) \in DOMAIN recent_signals
          /\ recent_signals[signal_key(pending_signal)] + send_left = SendTimeoutSecs)
  /\ [][SendTimedOut =>
          /\ signal_key(pending_signal) \in DOMAIN recent_signals'
          /\ recent_signals'[signal_key(pending_signal)] >= DedupSecs
          /\ Gate(recent_signals', signal_key(pending_signal)).should_send]_vars

\* C35 witness: the timeout of a pending send has run out with the channel still
\* full; the entry of the signal's pair, made at admission, is 5 s old
C35_Witness ==
  /\ ws_pc = "sending"
  /\ rx_open
  /\ send_left = 0
  /\ Len(ws_channel) >= WsChannelCap
  /\ signal_key(pending_signal) \in DOMAIN recent_signals
  /\ recent_signals[signal_key(pending_signal)] = DedupSecs

(***************************************************************************)
(* The sessions of one symbol                                              *)
(***************************************************************************)
\* the session tasks of a symbol that have their permit and have not terminated
SessionsOf(symbol) == {t \in PermitHolders : task_symbol[t] = symbol}

\* C36: at any time at most one session task per symbol is alive, also after a stop
\* whose 5 s wait timed out followed by a later watchlist tick that adds the same
\* symbol again
C36_OneSessionPerSymbol ==
  \A symbol \in Symbols : Cardinality(SessionsOf(symbol)) <= 1

\* C36, what the code keeps: the running map names at most one task per symbol, and a
\* second live session of a symbol is always one that was asked to stop
C36_ExtraSessionWasStopped ==
  \A symbol \in Symbols :
    \A t \in SessionsOf(symbol) :
      \/ (symbol \in DOMAIN running_tasks /\ running_tasks[symbol] = t)
      \/ shutdown[t] = "sent"

\* C36, the case of the claim: a session asked to stop is still alive, the wait on it
\* is over, and a later tick has started a second session for its symbol
C36_TwoSessionsReached ==
  \E symbol \in Symbols :
    \E t1, t2 \in SessionsOf(symbol) :
      /\ t1 < t2
      /\ shutdown[t1] = "sent"
      /\ running_tasks[symbol] = t2
      /\ sup_pc = "select"

(***************************************************************************)
(* The running map and sessions that end by themselves                     *)
(***************************************************************************)
\* the running map names for the symbol a task that has terminated
DeadEntry(symbol) ==
  /\ symbol \in DOMAIN running_tasks
  /\ task_pc[running_tasks[symbol]] = "done"

\* C37: every symbol in the running map has a session task that has not terminated: a
\* session that exits by itself does not remain in the map as a running entry across
\* the next watchlist tick on which its symbol is still a candidate; with the ticks
\* that keep coming, an entry of a terminated task is always removed or replaced
C37_DeadEntryDoesNotStay ==
  \A symbol \in Symbols : DeadEntry(symbol) ~> ~DeadEntry(symbol)

\* C37, what the code does: the start loop leaves the entry of a candidate that is in
\* the map as it is, terminated or not, and only a tick without the symbol removes it
C37_DeadEntryLeavesByStopOnly ==
  [][\A symbol \in Symbols :
       (DeadEntry(symbol) /\ ~DeadEntry(symbol)') =>
         (symbol \notin DOMAIN running_tasks' /\ symbol \notin Range(new_candidates))]_vars

\* C37, the case of the claim: a tick with the symbol as candidate has been handled to
\* its end; the map names a terminated task for the symbol, as it did before the tick,
\* and the tick has started no task
C37_DeadEntryKeptReached ==
  \E symbol \in Symbols :
    /\ TickDone
    /\ screener_result.ok
    /\ symbol \in Range(new_candidates)
    /\ DeadEntry(symbol)
    /\ running_before = running_tasks
    /\ next_before = next_task

(***************************************************************************)
(* The permits of the semaphore                                            *)
(***************************************************************************)
\* the places of a task at which it holds a permit
HoldingPlaces == {"init", "top", "connecting", "streaming", "sending", "parked", "sleeping"}

\* C40: the permits are conserved: each session task holds exactly one permit from
\* before its first connection attempt until it terminates, every way a session
\* terminates gives its permit back, and once all sessions have terminated the
\* available permits are max_concurrent_tasks again
C40_PermitsConserved ==
  /\ [](available_permits + Cardinality({t \in Tasks : task_pc[t] \in HoldingPlaces})
          = max_concurrent_tasks)
  /\ [](\A t \in Tasks : task_pc[t] = "connecting" => available_permits < max_concurrent_tasks)
  /\ []((\A t \in Tasks : task_pc[t] \in {"unborn", "acquire", "done"})
          => available_permits = max_concurrent_tasks)
  /\ [][\A t \in Tasks :
          /\ (task_pc[t] # "done" /\ task_pc'[t] = "done") =>
                (task_pc[t] \in HoldingPlaces /\ available_permits' = available_permits + 1)
          /\ (task_pc[t] # "connecting" /\ task_pc'[t] = "connecting") =>
                (task_pc[t] \in HoldingPlaces /\ available_permits' = available_permits)
          /\ (task_pc[t] \notin HoldingPlaces /\ task_pc'[t] \in HoldingPlaces) =>
                (available_permits > 0 /\ available_permits' = available_permits - 1)]_vars

\* C40 witness: all sessions have terminated, one on its stop signal and one by itself
\* before its first connection attempt, and every permit is back
C40_Witness ==
  /\ \A t \in Tasks : task_pc[t] \in {"unborn", "done"}
  /\ \E t \in Tasks : task_pc[t] = "done" /\ shutdown[t] = "received"
  /\ \E t \in Tasks : task_pc[t] = "done" /\ shutdown[t] = "empty"
  /\ available_permits = max_concurrent_tasks

=============================================================================
